---- MODULE Spec2Model ----
(***************************************************************************)
(* A model of lokutor-orchestrator: the conversation session (bounded      *)
(* context window), the STT -> LLM -> TTS pipeline of the Orchestrator     *)
(* (ProcessAudio, ProcessAudioStream), its configuration, sequential       *)
(* (ConfigSpec) and under concurrent callers (LockSpec), the RMS voice     *)
(* activity detector (VadSpec), its clone (CloneSpec) and its behaviour on  *)
(* a source gone quiet (LiveSpec), calls on several sessions (MultiSpec)   *)
(* and interruptions of a pipeline call (InterruptSpec).                   *)
(*                                                                         *)
(* Text (Go string) is a sequence of one-character strings, so that        *)
(* strings.TrimSpace is computed and not assumed.  A Go error is a record  *)
(* [msg, cause]: msg is the text the error was made with, cause the        *)
(* identity of the error it wraps with %w ("none" when it wraps nothing).  *)
(***************************************************************************)
EXTENDS Integers, Sequences, FiniteSets, TLC

\* ------------------------------------------------------------------ bounds
\* Largest sliding-window cap (Config.MaxContextMessages) explored besides
\* the default one.
MaxWindow == 3
\* Most AddMessage calls made on one session between two ClearContext calls,
\* the user and assistant turns of the pipeline calls included.
MaxAppends == 4
\* Most chunks a streaming synthesis hands to the sink.
MaxChunks == 2

\* Most calls of HandleInterruption made on the session.
MaxInterrupts == 1

\* --------------------------------------------------------- program constants
DefaultMaxMessages == 20
DefaultSampleRate == 16000
DefaultChannels == 1
DefaultBytesPerSamp == 2
DefaultSTTTimeout == 30
DefaultLLMTimeout == 60
DefaultTTSTimeout == 30

\* ------------------------------------------------------------------- values
EmptyText == << >>
Roles == {"user", "assistant", "system", "tool"}

\* Window sizes a session can carry: MaxMessages is a Go int that nothing
\* validates, so zero and a negative value are included.
WindowSizes == ((0 - 1) .. MaxWindow) \cup {DefaultMaxMessages}

Message(role, content) == [Role |-> role, Content |-> content]

Min(a, b) == IF a < b THEN a ELSE b

\* The last n elements of s (all of s when n >= Len(s), none when n <= 0).
LastN(s, n) ==
    IF n <= 0 THEN << >>
    ELSE IF n >= Len(s) THEN s
    ELSE SubSeq(s, Len(s) - n + 1, Len(s))

\* ------------------------------------------------------ ConversationSession
NewConversationSession(userID) ==
    [ID |-> userID,
     Context |-> << >>,
     LastUser |-> EmptyText,
     LastAssistant |-> EmptyText,
     MaxMessages |-> DefaultMaxMessages,
     CurrentVoice |-> "F1",
     CurrentLanguage |-> "en"]

\* AddMessage panics in s.Context[len(s.Context)-s.MaxMessages:] when the low
\* bound exceeds the length, which is when MaxMessages is negative.
AddMessagePanics(s) ==
    /\ Len(s.Context) + 1 > s.MaxMessages
    /\ (Len(s.Context) + 1) - s.MaxMessages > Len(s.Context) + 1

\* A trim that keeps the oldest messages: s.Context[:s.MaxMessages].
TrimContextKeepsOldest(ctx, max) ==
    IF Len(ctx) > max THEN SubSeq(ctx, 1, max) ELSE ctx

\* The slice expression of AddMessage on the context after the append.
TrimContext(ctx, max) ==
    IF Len(ctx) > max THEN SubSeq(ctx, Len(ctx) - max + 1, Len(ctx)) ELSE ctx

\* The session a panicking AddMessage leaves behind: the append happened, the
\* trim and the cache update did not.
AddMessagePartial(s, role, content) ==
    [s EXCEPT !.Context = Append(s.Context, Message(role, content))]

AddMessage(s, role, content) ==
    LET appended == Append(s.Context, Message(role, content))
        trimmed == TrimContext(appended, s.MaxMessages)
    IN  [s EXCEPT !.Context = trimmed,
                  !.LastUser = IF role = "user" THEN content ELSE @,
                  !.LastAssistant = IF role = "assistant" THEN content ELSE @]

\* A clearing that leaves the last-turn caches alone.
ClearContextKeepsCaches(s) == [s EXCEPT !.Context = << >>]

\* ConversationSession.ClearContext.
ClearContext(s) ==
    [s EXCEPT !.Context = << >>, !.LastUser = EmptyText, !.LastAssistant = EmptyText]

\* -------------------------------------------------------------------- text
\* White space as strings.TrimSpace sees it (the characters of Chars).
IsSpace(c) == c \in {" ", "\t", "\n", "\r"}

RECURSIVE TrimLeft(_)
TrimLeft(t) ==
    IF t = << >> THEN t
    ELSE IF IsSpace(Head(t)) THEN TrimLeft(Tail(t)) ELSE t

RECURSIVE TrimRight(_)
TrimRight(t) ==
    IF t = << >> THEN t
    ELSE IF IsSpace(t[Len(t)]) THEN TrimRight(SubSeq(t, 1, Len(t) - 1)) ELSE t

\* A transcript compared with "" as it came, never trimmed.
TrimSpaceForgotten(t) == t

\* strings.TrimSpace
TrimSpace(t) == TrimRight(TrimLeft(t))

\* ------------------------------------------------------------------ errors
\* A Go error value is a sequence of at most one record; the nil error is
\* the empty sequence.
NoError == << >>
\* fmt.Errorf(msg) with no %w verb: an error that wraps nothing.
NewError(msg) == << [msg |-> msg, cause |-> << >>] >>
\* fmt.Errorf(msg + ": %w", err): an error that wraps err.
Errorf(msg, err) == << [msg |-> msg, cause |-> err] >>
\* errors.Unwrap
Unwrap(err) == IF err = NoError THEN NoError ELSE err[1].cause

\* Errors the collaborators (STT, LLM, TTS) fail with, and the one the
\* caller's chunk sink fails with.
ProviderErrs == {NewError("E1"), NewError("E2")}
SinkErrs == {NewError("K1")}

\* ------------------------------------------------------------------ config
Voices == {"F1", "M1"}
Languages == {"en", "es"}

DefaultConfig ==
    [SampleRate |-> DefaultSampleRate,
     Channels |-> DefaultChannels,
     BytesPerSamp |-> DefaultBytesPerSamp,
     MaxContextMessages |-> DefaultMaxMessages,
     VoiceStyle |-> "F1",
     Language |-> "en",
     STTTimeout |-> DefaultSTTTimeout,
     LLMTimeout |-> DefaultLLMTimeout,
     TTSTimeout |-> DefaultTTSTimeout]

\* Config values a caller hands to New and UpdateConfig.  No field is
\* validated; the zero timeouts and the sample rate 8000 are those of
\* TestConfigManagement.
Configs ==
    {[DefaultConfig EXCEPT !.SampleRate = IF t = 0 THEN 8000 ELSE DefaultSampleRate,
                           !.MaxContextMessages = w,
                           !.VoiceStyle = v,
                           !.Language = l,
                           !.STTTimeout = t,
                           !.LLMTimeout = 2 * t,
                           !.TTSTimeout = t] :
        w \in WindowSizes, v \in Voices, l \in Languages,
        t \in {0, DefaultSTTTimeout}}

\* A session that takes nothing from the config.
NewSessionIgnoresConfig(cfg, userID) == NewConversationSession(userID)

\* Orchestrator.NewSessionWithDefaults, reading the config cfg.
NewSessionWithDefaults(cfg, userID) ==
    [NewConversationSession(userID) EXCEPT
        !.MaxMessages = cfg.MaxContextMessages,
        !.CurrentVoice = cfg.VoiceStyle,
        !.CurrentLanguage = cfg.Language]

\* ------------------------------------------------ voice activity detector
\* Energies (float64 in the code) are fixed-point here: integers counting
\* millionths of the full-scale amplitude, every division rounded down.
One == 1000000
\* math.NaN: every comparison with it is false.
NaN == 0 - 1
FLt(a, b) == a # NaN /\ b # NaN /\ a < b
FGt(a, b) == a # NaN /\ b # NaN /\ a > b

\* The largest r in lo .. hi with r * r <= x.
RECURSIVE ISqrtIn(_, _, _)
ISqrtIn(x, lo, hi) ==
    IF lo = hi
    THEN lo
    ELSE LET mid == (lo + hi + 1) \div 2
         IN IF mid * mid <= x THEN ISqrtIn(x, mid, hi) ELSE ISqrtIn(x, lo, mid - 1)

\* int16(chunk[i]) | (int16(chunk[i+1]) << 8): two bytes, little-endian, as
\* a signed 16-bit sample.
SampleWidth == 65536
Sample(lo, hi) ==
    LET u == lo + 256 * hi
    IN IF u >= SampleWidth \div 2 THEN u - SampleWidth ELSE u

\* float64(sample) / 32768.0, in ten-thousandths, without its sign (only the
\* square is used).
FullScale == 32768
Amplitude(s) == ((IF s < 0 THEN 0 - s ELSE s) * 10000) \div FullScale

\* The sum over the loop of calculateRMS: one sample per pair of bytes, the
\* last byte of an odd-length chunk left out.
RECURSIVE SumSquares(_, _)
SumSquares(chunk, i) ==
    IF i >= Len(chunk)
    THEN 0
    ELSE Amplitude(Sample(chunk[i], chunk[i + 1])) * Amplitude(Sample(chunk[i], chunk[i + 1]))
         + SumSquares(chunk, i + 2)

\* RMSVAD.calculateRMS.  A chunk of one byte has no sample and len(chunk)/2
\* is 0: the quotient 0/0 is NaN, and so is its square root.
calculateRMS(chunk) ==
    IF Len(chunk) = 0
    THEN 0
    ELSE IF Len(chunk) \div 2 = 0
    THEN NaN
    ELSE ISqrtIn(SumSquares(chunk, 1) \div (Len(chunk) \div 2), 0, 10000) * (One \div 10000)

\* NewRMSVAD's defaults.
DefaultMinConfirmed == 7
InitialNoiseFloor == 5000
\* alpha = 0.05, as the number of twentieths.
AlphaDen == 20
DefaultAlpha == 1
\* The cap 0.3 of the effective threshold.
ThresholdCap == 300000

\* time.Time{}: the zero time, which no reading of the clock gives.
ZeroTime == 0

NewRMSVAD(threshold, silenceLimit) ==
    [threshold |-> threshold,
     silenceLimit |-> silenceLimit,
     isSpeaking |-> FALSE,
     silenceStart |-> ZeroTime,
     adaptiveMode |-> TRUE,
     noiseFloor |-> InitialNoiseFloor,
     alpha |-> DefaultAlpha,
     consecutiveFrames |-> 0,
     minConfirmed |-> DefaultMinConfirmed,
     lastRMS |-> 0]

\* A noise floor that also adapts upwards in mid-utterance.
AdaptedFloorAlways(v, rms) ==
    IF FLt(rms, v.noiseFloor)
    THEN rms
    ELSE IF FLt(rms, v.threshold * 2)
    THEN ((AlphaDen - v.alpha) * v.noiseFloor + v.alpha * rms) \div AlphaDen
    ELSE v.noiseFloor

\* Process: the noise floor after the frame of energy rms (adaptive mode).
AdaptedFloor(v, rms) ==
    IF FLt(rms, v.noiseFloor)
    THEN rms
    ELSE IF ~v.isSpeaking /\ FLt(rms, v.threshold * 2)
    THEN ((AlphaDen - v.alpha) * v.noiseFloor + v.alpha * rms) \div AlphaDen
    ELSE v.noiseFloor

\* An effective threshold without the cap.
EffectiveThresholdUncapped(threshold, adaptiveMode, noiseFloor) ==
    IF adaptiveMode /\ noiseFloor * 2 > threshold THEN noiseFloor * 2 ELSE threshold

\* Process: the effective threshold of the frame, given the noise floor as
\* the frame has left it.
EffectiveThreshold(threshold, adaptiveMode, noiseFloor) ==
    IF ~adaptiveMode
    THEN threshold
    ELSE LET raised == IF noiseFloor * 2 > threshold THEN noiseFloor * 2 ELSE threshold
         IN IF raised > ThresholdCap THEN ThresholdCap ELSE raised

\* A frame that counts as sound when its energy equals the threshold.
AboveOrAt(rms, eff) == rms # NaN /\ rms >= eff

\* Process: rms > effectiveThreshold.
Above(rms, eff) == FGt(rms, eff)

\* A confirmation that a single frame above the threshold completes.
ConfirmedAtOnce(count, min) == count >= 1

\* A confirmation that needs one frame more.
ConfirmedLate(count, min) == count > min

\* Process: v.consecutiveFrames >= v.minConfirmed.
Confirmed(count, min) == count >= min

\* A hangover that never ends.
SilenceNeverOver(t, start, limit) == FALSE

\* A hangover that ends only after the limit is exceeded.
SilenceOverLate(t, start, limit) == t - start > limit

\* Process: now.Sub(v.silenceStart) >= v.silenceLimit.
SilenceOver(t, start, limit) == t - start >= limit

\* An end of speech that leaves the detector speaking.
SpeechEndedStillSpeaking(v) == [v EXCEPT !.silenceStart = ZeroTime]

\* Process: the two assignments made before SpeechEnd is returned.
SpeechEnded(v) == [v EXCEPT !.isSpeaking = FALSE, !.silenceStart = ZeroTime]

\* RMSVAD.Process(chunk) from the return of calculateRMS, which gave rms,
\* with the clock reading t: the detector afterwards, the event returned
\* ("none" for a nil event), and the effective threshold the frame was
\* compared with.
ProcessEnergy(v, rms, t) ==
    LET floor == IF v.adaptiveMode THEN AdaptedFloor(v, rms) ELSE v.noiseFloor
        eff == EffectiveThreshold(v.threshold, v.adaptiveMode, floor)
        v1 == [v EXCEPT !.lastRMS = rms, !.noiseFloor = floor]
        start == IF v.silenceStart = ZeroTime THEN t ELSE v.silenceStart
    IN IF Above(rms, eff)
       THEN IF ~v.isSpeaking
            THEN IF Confirmed(v.consecutiveFrames + 1, v.minConfirmed)
                 THEN [vad |-> [v1 EXCEPT !.consecutiveFrames = @ + 1,
                                          !.isSpeaking = TRUE],
                       event |-> "SpeechStart", eff |-> eff]
                 ELSE [vad |-> [v1 EXCEPT !.consecutiveFrames = @ + 1],
                       event |-> "none", eff |-> eff]
            ELSE [vad |-> [v1 EXCEPT !.consecutiveFrames = @ + 1,
                                     !.silenceStart = ZeroTime],
                  event |-> "none", eff |-> eff]
       ELSE IF v.isSpeaking
            THEN IF SilenceOver(t, start, v.silenceLimit)
                 THEN [vad |-> SpeechEnded([v1 EXCEPT !.consecutiveFrames = 0]),
                       event |-> "SpeechEnd", eff |-> eff]
                 ELSE [vad |-> [v1 EXCEPT !.consecutiveFrames = 0,
                                          !.silenceStart = start],
                       event |-> "Silence", eff |-> eff]
            ELSE [vad |-> [v1 EXCEPT !.consecutiveFrames = 0],
                  event |-> "Silence", eff |-> eff]

\* A Reset that leaves the silence timer running.
ResetKeepsSilenceStart(v) ==
    [v EXCEPT !.isSpeaking = FALSE, !.consecutiveFrames = 0]

\* RMSVAD.Reset.
Reset(v) ==
    [v EXCEPT !.isSpeaking = FALSE, !.silenceStart = ZeroTime,
              !.consecutiveFrames = 0]

\* Frames: silent ones of length 0 to 3, a moderate sample (0.0156), a loud
\* one (0.5) followed by a stray byte, and two loud samples of opposite sign.
Frames ==
    {<< >>, <<0>>, <<0, 0>>, <<0, 0, 0>>,
     <<0, 2>>, <<0, 64, 9>>, <<0, 64, 0, 192>>}

\* calculateRMS of each of them.
FrameRMS == [chunk \in Frames |-> calculateRMS(chunk)]

\* A frame all of whose bytes are zero.
Silent(chunk) == \A i \in 1 .. Len(chunk) : chunk[i] = 0

\* Static thresholds (-0.01, 0, 0.01 and 0.4) and silence limits, in clock
\* ticks.
Thresholds == {0 - One \div 100, 0, One \div 100, 4 * (One \div 10)}
SilenceLimits == {0, 2}
\* Frame counts SetMinConfirmed is called with.
MinConfirmeds == 0 .. 2

\* Between two frames the clock advances by 1 .. MaxStep ticks; frames are
\* processed until the clock reads MaxTime.
MaxStep == 2
MaxTime == 8

\* ------------------------------------------------------------------- state
VARIABLES
    session,      \* the ConversationSession the caller passes to every call
    appended,     \* ghost: every message AddMessage was called with, in order,
                  \*        since the session was made or cleared
    panicked,     \* a Go runtime panic left the call (slice bounds out of range)
    cleared,      \* ghost: "never" until ClearContext is called on the session,
                  \*        then whether the last call found it holding
                  \*        something ("held") or nothing ("idle")
    madeFrom,     \* ghost: the config NewSessionWithDefaults made the session
                  \*        from (<< >> for a session of NewConversationSession)
    config,       \* Orchestrator.config
    cfgArg,       \* ghost: the config last handed to the orchestrator, and
                  \*        by which of New and UpdateConfig
    cfgRet,       \* what the last GetConfig since then returned (<< >> if none)
    pc,           \* where the pipeline call in flight stands
    mode,         \* "batch" (ProcessAudio) or "stream" (ProcessAudioStream)
    pre,          \* ghost: the session when the call in flight began
    transcript,   \* local of the call: the transcript
    response,     \* local of the call: the LLM's response
    sttRes,       \* ghost: what the STT collaborator returned (<< >> before)
    llmArg,       \* ghost: the messages the LLM was invoked with (<< >> before)
    llmRes,       \* ghost: what the LLM collaborator returned (<< >> before)
    ttsRes,       \* ghost: what the TTS collaborator returned (<< >> before)
    ttsPlan,      \* the chunks the streaming TTS produces in this call
    ttsPos,       \* how many of them it has produced so far
    delivered,    \* the chunks the caller's sink was invoked with
    sinkRes,      \* ghost: what the sink returned on its last invocation
    trace,        \* ghost: the call's collaborator invocations and appends
    ret,          \* what the last finished call returned (<< >> before)
    mu,           \* Orchestrator.mu: who holds the read lock, who the write
                  \*        lock, and which writer waits for the readers to leave
    procs,        \* the goroutines calling the orchestrator concurrently: the
                  \*        call each one makes and where it stands in it
    installed,    \* ghost: the config New was given and every config an
                  \*        UpdateConfig call was given
    vad,          \* the RMSVAD
    now,          \* the clock, as time.Now() last read it in Process
    last,         \* ghost: the last operation on the detector and its outcome
    run,          \* ghost: how many frames above the threshold in a row the
                  \*        detector has seen since it was last not speaking
                  \*        with nothing to confirm (0: no such run)
    subStart,     \* ghost: when the run of frames not above the threshold
                  \*        began that the speaking detector is in (0: none)
    multi,        \* the sessions driven side by side, each with the call in
                  \*        flight on it and (ghost) the answers its calls got
    interrupted,  \* ghost: where the calls of HandleInterruption found the
                  \*        pipeline call (its stage and the chunks produced)
    twin,         \* the detector Clone returned (<< >> before the call), and as
                  \*        ghost a detector made anew with the original's
                  \*        settings, fed the same frames, with the last event
                  \*        of each
    quiet         \* the audio source has gone quiet: every frame it hands to
                  \*        the detector from now on is at or below the
                  \*        effective threshold

sessVars == <<session, appended, panicked, cleared, madeFrom>>
cfgVars == <<config, cfgArg, cfgRet>>
callVars == <<pc, mode, pre, transcript, response, sttRes, llmArg, llmRes,
              ttsRes, ttsPlan, ttsPos, delivered, sinkRes, trace, ret>>
lockVars == <<mu, procs, installed>>
\* The variables of the components the session, pipeline and sequential
\* config operations do not touch.
vadVars == <<vad, now, last, run, subStart>>
multiVars == <<multi>>
intrVars == <<interrupted>>
twinVars == <<twin>>
quietVars == <<quiet>>
otherVars == <<lockVars, vadVars, multiVars, intrVars, twinVars, quietVars>>
vars == <<session, appended, panicked, cleared, madeFrom, config, cfgArg,
          cfgRet, pc, mode, pre, transcript, response, sttRes, llmArg, llmRes,
          ttsRes, ttsPlan, ttsPos, delivered, sinkRes, trace, ret,
          mu, procs, installed, vad, now, last, run, subStart, multi,
          interrupted,
          twin,
          quiet>>

\* ------------------------------------------------ concurrent config callers
\* The goroutines: two call GetConfig, two UpdateConfig, one
\* NewSessionWithDefaults.
Getters == {"get1", "get2"}
Updaters == {"upd1", "upd2"}
Makers == {"new1"}
Procs == Getters \cup Updaters \cup Makers

\* The fields of Config in the order of the struct; a struct is copied field
\* by field.
CfgFields == <<"SampleRate", "Channels", "BytesPerSamp", "MaxContextMessages",
               "VoiceStyle", "Language", "STTTimeout", "LLMTimeout", "TTSTimeout">>

\* The zero Config, which a return slot holds before the copy.
ZeroConfig ==
    [SampleRate |-> 0, Channels |-> 0, BytesPerSamp |-> 0,
     MaxContextMessages |-> 0, VoiceStyle |-> "", Language |-> "",
     STTTimeout |-> 0, LLMTimeout |-> 0, TTSTimeout |-> 0]

\* An unlocked sync.RWMutex.
MuFree == [readers |-> {}, writer |-> << >>, pending |-> << >>]

\* A goroutine that has not made its call yet.
IdleProc == [pc |-> "idle", pos |-> 0, arg |-> << >>, buf |-> << >>, ret |-> << >>]

\* No goroutine calls the orchestrator concurrently.
NoProcs ==
    /\ mu = MuFree
    /\ procs = [p \in Procs |-> IdleProc]
    /\ installed = {}

\* What is known of the last operation on the detector.  Of Process:
\* whether the frame was silent, the event returned, the effective threshold,
\* whether the detector was speaking before, and for a frame at or below the
\* threshold that found it speaking, the time elapsed since the first frame
\* of its run (-1 otherwise), and for a frame at or below the threshold that
\* found it not speaking, how many frames above the threshold came right
\* before it (broke).  Of Reset: the detector as it was before.  Of both:
\* which of SpeechStart and SpeechEnd the detector returned last since it
\* was made or reset (edge; "none" if neither).
NoFrame ==
    [op |-> "none", silent |-> FALSE, event |-> "none", eff |-> 0,
     wasSpeaking |-> FALSE, elapsed |-> 0 - 1, broke |-> 0, before |-> << >>,
     edge |-> "none"]

\* No caller drives a session of its own.
NoSessions == multi = << >>

\* No detector is in use.
NoDetector ==
    /\ vad = NewRMSVAD(0, 0)
    /\ now = ZeroTime
    /\ last = NoFrame
    /\ run = 0
    /\ subStart = ZeroTime

\* HandleInterruption was never called.
NoInterruption == interrupted = << >>

\* Clone was not called.
NoClone == twin = << >>

\* The audio source may still be heard.
NotQuiet == quiet = FALSE

\* The call-related variables of an orchestrator on which no call was made.
NoCall ==
    /\ pc = "idle"
    /\ mode = "none"
    /\ pre = session
    /\ transcript = EmptyText
    /\ response = EmptyText
    /\ sttRes = << >>
    /\ llmArg = << >>
    /\ llmRes = << >>
    /\ ttsRes = << >>
    /\ ttsPlan = << >>
    /\ ttsPos = 0
    /\ delivered = << >>
    /\ sinkRes = << >>
    /\ trace = << >>
    /\ ret = << >>

\* --------------------------------------------------- session operations
Contents == {<<"h">>, <<"p">>}

\* session.AddMessage(role, content), called directly by the caller.
AddMessageOp(role, content) ==
    /\ ~panicked
    /\ pc \in {"idle", "done"}
    /\ Len(appended) < MaxAppends
    /\ appended' = Append(appended, Message(role, content))
    /\ IF AddMessagePanics(session)
       THEN /\ session' = AddMessagePartial(session, role, content)
            /\ panicked' = TRUE
       ELSE /\ session' = AddMessage(session, role, content)
            /\ panicked' = FALSE
    /\ UNCHANGED <<cleared, madeFrom, cfgVars, callVars>>
    /\ UNCHANGED otherVars

\* session.ClearContext()
ClearContextOp ==
    /\ ~panicked
    /\ pc \in {"idle", "done"}
    /\ session' = ClearContext(session)
    /\ appended' = << >>
    /\ cleared' = IF ClearContext(session) = session THEN "idle" ELSE "held"
    /\ UNCHANGED <<panicked, madeFrom, cfgVars, callVars>>
    /\ UNCHANGED otherVars

SessionInit ==
    /\ config \in {[DefaultConfig EXCEPT !.MaxContextMessages = w] : w \in WindowSizes}
    /\ cfgArg = [cfg |-> config, by |-> "New"]
    /\ cfgRet = << >>
    /\ \/ session = NewConversationSession("u1") /\ madeFrom = << >>
       \/ session = NewSessionWithDefaults(config, "u1") /\ madeFrom = << config >>
    /\ appended = << >>
    /\ panicked = FALSE
    /\ cleared = "never"
    /\ NoCall
    /\ NoProcs
    /\ NoDetector
    /\ NoSessions
    /\ NotQuiet
    /\ NoClone
    /\ NoInterruption

SessionNext ==
    \/ \E role \in Roles, content \in Contents : AddMessageOp(role, content)
    \/ ClearContextOp

SessionSpec == SessionInit /\ [][SessionNext]_vars

\* ------------------------------------------------------ collaborator values
\* What the STT collaborator can return as text: empty, blank, and non-blank
\* with and without surrounding white space.
Transcripts == {EmptyText, <<" ">>, <<"\t", " ">>, <<"h">>, <<" ", "h", " ">>}
\* What the LLM collaborator can return as text.
Responses == {EmptyText, <<"r">>}
\* What the TTS collaborator can return as audio (nil is the empty sequence).
Audios == {<< >>, <<1, 2, 3, 4>>}
\* The chunks a streaming TTS can produce (an empty chunk included: the
\* mock hands its whole result to the sink, empty or not).
ChunkVals == {<< >>, <<7>>}

RECURSIVE SeqsUpTo(_, _)
SeqsUpTo(S, n) ==
    IF n = 0 THEN {<< >>}
    ELSE LET shorter == SeqsUpTo(S, n - 1)
         IN  shorter \cup {Append(q, x) : q \in shorter, x \in S}

\* What a call returned: ProcessAudio's (string, []byte, error);
\* ProcessAudioStream's (string, error) has audio << >>.
Return(t, a, e) == << [transcript |-> t, audio |-> a, err |-> e] >>

\* ------------------------------------------------------------ the pipeline
\* An error test that never sees a failure.
FailedIgnored(err) == FALSE

\* The test `err != nil` after each collaborator call.
Failed(err) == err # NoError

\* The test `strings.TrimSpace(transcript) == ""`.
TranscriptRejected(text) == TrimSpace(text) = EmptyText

\* The return statements of ProcessAudio; ProcessAudioStream's are the same
\* without the audio, up to the synthesis stage.
RetTranscriptionFailed(err) ==
    Return(EmptyText, << >>, Errorf("transcription failed", err))
RetEmptyTranscription ==
    Return(EmptyText, << >>, NewError("empty transcription"))
\* An LLM failure that returns no transcript.
RetLLMFailedNoTranscript(t, err) ==
    Return(EmptyText, << >>, Errorf("LLM failed", err))
RetLLMFailed(t, err) ==
    Return(t, << >>, Errorf("LLM failed", err))
\* A TTS failure formatted with %v: the cause is not kept.
RetTTSFailedNoCause(t, err) ==
    Return(t, << >>, NewError("TTS failed"))
RetTTSFailed(t, err) ==
    Return(t, << >>, Errorf("TTS failed", err))
\* A success that returns the trimmed transcript.
RetOKTrimmed(t, audio) ==
    Return(TrimSpace(t), audio, NoError)
RetOK(t, audio) ==
    Return(t, audio, NoError)
\* A stream failure returned as it came, not wrapped.
RetStreamFailedUntouched(t, err) ==
    Return(t, << >>, err)
\* The last two return statements of ProcessAudioStream.
RetStreamFailed(t, err) ==
    Return(t, << >>, Errorf("TTS stream failed", err))
\* A streamed success that returns no transcript.
RetStreamOKNoTranscript(t) ==
    Return(EmptyText, << >>, NoError)
RetStreamOK(t) ==
    Return(t, << >>, NoError)

\* A GenerateResponse that sends the new utterance alone.
GenerateResponseArgLastOnly(s) == LastN(s.Context, 1)

\* Orchestrator.GenerateResponse: the messages the LLM is invoked with.
GenerateResponseArg(s) == s.Context

\* ProcessAudio / ProcessAudioStream up to the call of o.Transcribe.
StartCall(m) ==
    /\ ~panicked
    /\ pc \in {"idle", "done"}
    /\ Len(appended) + 2 <= MaxAppends
    /\ pc' = "stt"
    /\ mode' = m
    /\ pre' = session
    /\ transcript' = EmptyText
    /\ response' = EmptyText
    /\ sttRes' = << >>
    /\ llmArg' = << >>
    /\ llmRes' = << >>
    /\ ttsRes' = << >>
    /\ ttsPlan' = << >>
    /\ ttsPos' = 0
    /\ delivered' = << >>
    /\ sinkRes' = << >>
    /\ trace' = <<"STT">>
    /\ ret' = << >>
    /\ UNCHANGED <<sessVars, cfgVars>>
    /\ UNCHANGED otherVars

\* The call returns r.
Finish(r) ==
    /\ ret' = r
    /\ pc' = "done"

\* From the return of o.Transcribe to the call of o.GenerateResponse (or to
\* the return on a failure or an empty transcript).
STTReturns(text, err) ==
    /\ pc = "stt"
    /\ sttRes' = << [val |-> text, err |-> err] >>
    /\ IF Failed(err)
       THEN /\ Finish(RetTranscriptionFailed(err))
            /\ UNCHANGED <<sessVars, transcript, llmArg, trace>>
       ELSE IF TranscriptRejected(text)
       THEN /\ Finish(RetEmptyTranscription)
            /\ transcript' = text
            /\ UNCHANGED <<sessVars, llmArg, trace>>
       ELSE IF AddMessagePanics(session)
       THEN /\ session' = AddMessagePartial(session, "user", text)
            /\ appended' = Append(appended, Message("user", text))
            /\ panicked' = TRUE
            /\ pc' = "panic"
            /\ transcript' = text
            /\ UNCHANGED <<llmArg, trace, ret>>
       ELSE /\ session' = AddMessage(session, "user", text)
            /\ appended' = Append(appended, Message("user", text))
            /\ transcript' = text
            /\ llmArg' = << GenerateResponseArg(session') >>
            /\ trace' = trace \o <<"add_user", "LLM">>
            /\ pc' = "llm"
            /\ UNCHANGED <<panicked, ret>>
    /\ UNCHANGED <<cleared, madeFrom, cfgVars, mode, pre, response, llmRes,
                   ttsRes, ttsPlan, ttsPos, delivered, sinkRes>>
    /\ UNCHANGED otherVars

\* From the return of o.GenerateResponse to the call of o.Synthesize or
\* o.SynthesizeStream (or to the return on a failure).  plan is what the
\* streaming TTS collaborator is going to produce.
LLMReturns(text, err, plan) ==
    /\ pc = "llm"
    /\ llmRes' = << [val |-> text, err |-> err] >>
    /\ IF Failed(err)
       THEN /\ Finish(RetLLMFailed(transcript, err))
            /\ UNCHANGED <<sessVars, response, trace, ttsPlan>>
       ELSE IF AddMessagePanics(session)
       THEN /\ session' = AddMessagePartial(session, "assistant", text)
            /\ appended' = Append(appended, Message("assistant", text))
            /\ panicked' = TRUE
            /\ pc' = "panic"
            /\ response' = text
            /\ UNCHANGED <<trace, ret, ttsPlan>>
       ELSE /\ session' = AddMessage(session, "assistant", text)
            /\ appended' = Append(appended, Message("assistant", text))
            /\ response' = text
            /\ trace' = trace \o <<"add_assistant", "TTS">>
            /\ pc' = IF mode = "batch" THEN "tts" ELSE "stream"
            /\ ttsPlan' = IF mode = "batch" THEN << >> ELSE plan
            /\ UNCHANGED <<panicked, ret>>
    /\ UNCHANGED <<cleared, madeFrom, cfgVars, mode, pre, transcript, sttRes,
                   llmArg, ttsRes, ttsPos, delivered, sinkRes>>
    /\ UNCHANGED otherVars

\* ProcessAudio from the return of o.Synthesize to its own return.
TTSReturns(audio, err) ==
    /\ pc = "tts"
    /\ ttsRes' = << [val |-> audio, err |-> err] >>
    /\ IF Failed(err)
       THEN Finish(RetTTSFailed(transcript, err))
       ELSE Finish(RetOK(transcript, audio))
    /\ UNCHANGED <<sessVars, cfgVars, mode, pre, transcript, response, sttRes,
                   llmArg, llmRes, ttsPlan, ttsPos, delivered, sinkRes, trace>>
    /\ UNCHANGED otherVars

\* ProcessAudioStream from the return of o.SynthesizeStream to its own return.
StreamResult(err) ==
    IF Failed(err)
    THEN Finish(RetStreamFailed(transcript, err))
    ELSE Finish(RetStreamOK(transcript))

\* A sink that is not the caller's: the chunk never reaches the caller.
SinkReceivesNothing(chunks, c) == chunks

\* The sink ProcessAudioStream and SynthesizeStream hand to the TTS
\* collaborator is the caller's onAudioChunk itself: a chunk the collaborator
\* produces reaches the caller.
SinkReceives(chunks, c) == Append(chunks, c)

\* The streaming TTS collaborator produces its next chunk and invokes the
\* sink with it; the sink answers sinkErr.  On a sink failure the
\* collaborator aborts and returns the sink's error, as its contract says and
\* as MockTTSProvider.StreamSynthesize does.
StreamChunk(sinkErr) ==
    /\ pc = "stream"
    /\ ttsPos < Len(ttsPlan)
    /\ ttsPos' = ttsPos + 1
    /\ delivered' = SinkReceives(delivered, ttsPlan[ttsPos + 1])
    /\ sinkRes' = << sinkErr >>
    /\ trace' = Append(trace, "chunk")
    /\ IF sinkErr # NoError
       THEN /\ ttsRes' = << [val |-> << >>, err |-> sinkErr] >>
            /\ StreamResult(sinkErr)
       ELSE UNCHANGED <<ttsRes, ret, pc>>
    /\ UNCHANGED <<sessVars, cfgVars, mode, pre, transcript, response, sttRes,
                   llmArg, llmRes, ttsPlan>>
    /\ UNCHANGED otherVars

\* The streaming TTS collaborator returns: with nil once it has produced
\* everything, or at any point with an error of its own.
StreamReturns(err) ==
    /\ pc = "stream"
    /\ err = NoError => ttsPos = Len(ttsPlan)
    /\ ttsRes' = << [val |-> << >>, err |-> err] >>
    /\ StreamResult(err)
    /\ UNCHANGED <<sessVars, cfgVars, mode, pre, transcript, response, sttRes,
                   llmArg, llmRes, ttsPlan, ttsPos, delivered, sinkRes, trace>>
    /\ UNCHANGED otherVars

\* The caller drops what the last call returned: the call-related variables
\* are again those of an orchestrator on which no call is in flight.
ForgetCall ==
    /\ pc' = "idle"
    /\ mode' = "none"
    /\ pre' = session'
    /\ transcript' = EmptyText
    /\ response' = EmptyText
    /\ sttRes' = << >>
    /\ llmArg' = << >>
    /\ llmRes' = << >>
    /\ ttsRes' = << >>
    /\ ttsPlan' = << >>
    /\ ttsPos' = 0
    /\ delivered' = << >>
    /\ sinkRes' = << >>
    /\ trace' = << >>
    /\ ret' = << >>

\* Orchestrator.SetSystemPrompt between two calls.
SetSystemPrompt(prompt) ==
    /\ ~panicked
    /\ pc \in {"idle", "done"}
    /\ Len(appended) < MaxAppends
    /\ appended' = Append(appended, Message("system", prompt))
    /\ IF AddMessagePanics(session)
       THEN /\ session' = AddMessagePartial(session, "system", prompt)
            /\ panicked' = TRUE
       ELSE /\ session' = AddMessage(session, "system", prompt)
            /\ panicked' = FALSE
    /\ ForgetCall
    /\ UNCHANGED <<cleared, madeFrom, cfgVars>>
    /\ UNCHANGED otherVars

\* Orchestrator.ResetSession between two calls.
ResetSession ==
    /\ ~panicked
    /\ pc \in {"idle", "done"}
    /\ session' = ClearContext(session)
    /\ appended' = << >>
    /\ cleared' = IF ClearContext(session) = session THEN "idle" ELSE "held"
    /\ ForgetCall
    /\ UNCHANGED <<panicked, madeFrom, cfgVars>>
    /\ UNCHANGED otherVars

Init ==
    /\ config \in {[DefaultConfig EXCEPT !.MaxContextMessages = w] : w \in WindowSizes}
    /\ cfgArg = [cfg |-> config, by |-> "New"]
    /\ cfgRet = << >>
    /\ session = NewSessionWithDefaults(config, "u1")
    /\ madeFrom = << config >>
    /\ appended = << >>
    /\ panicked = FALSE
    /\ cleared = "never"
    /\ NoCall
    /\ NoProcs
    /\ NoDetector
    /\ NoSessions
    /\ NotQuiet
    /\ NoClone
    /\ NoInterruption

Next ==
    \/ \E m \in {"batch", "stream"} : StartCall(m)
    \/ \E text \in Transcripts : STTReturns(text, NoError)
    \/ \E text \in {EmptyText, <<"h">>}, err \in ProviderErrs : STTReturns(text, err)
    \/ \E text \in Responses, plan \in SeqsUpTo(ChunkVals, MaxChunks) :
            LLMReturns(text, NoError, plan)
    \/ \E text \in Responses, err \in ProviderErrs : LLMReturns(text, err, << >>)
    \/ \E audio \in Audios : TTSReturns(audio, NoError)
    \/ \E audio \in Audios, err \in ProviderErrs : TTSReturns(audio, err)
    \/ \E sinkErr \in {NoError} \cup SinkErrs : StreamChunk(sinkErr)
    \/ \E err \in {NoError} \cup ProviderErrs : StreamReturns(err)
    \/ SetSystemPrompt(<<"p">>)
    \/ ResetSession

Spec == Init /\ [][Next]_vars

\* ----------------------------------------------------------- interruption
\* A HandleInterruption that drops what the session holds.
SessionAfterInterruptionCleared(s) == ClearContext(s)

\* The session HandleInterruption was called with, after the call: the
\* function reads session.ID for its log line and writes nothing.
SessionAfterInterruption(s) == s

\* The stage of the pipeline call in flight on the session, after
\* HandleInterruption: the function signals nothing to the call.
StageAfterInterruption(p) == p

\* Orchestrator.HandleInterruption(session), called at any time, also from
\* another goroutine while a pipeline call on the session is in flight.
HandleInterruption ==
    /\ Len(interrupted) < MaxInterrupts
    /\ interrupted' = Append(interrupted, [pc |-> pc, pos |-> ttsPos])
    /\ session' = SessionAfterInterruption(session)
    /\ pc' = StageAfterInterruption(pc)
    /\ UNCHANGED <<appended, panicked, cleared, madeFrom, cfgVars, mode, pre,
                   transcript, response, sttRes, llmArg, llmRes, ttsRes,
                   ttsPlan, ttsPos, delivered, sinkRes, trace, ret>>
    /\ UNCHANGED <<lockVars, vadVars, multiVars, twinVars, quietVars>>

\* One pipeline call on a session that may hold messages already, and
\* interruptions of it.
InterruptNext ==
    \/ pc = "idle" /\ AddMessageOp("user", <<"p">>)
    \/ \E m \in {"batch", "stream"} : pc = "idle" /\ StartCall(m)
    \/ \E text \in {<<" ">>, <<"h">>} : STTReturns(text, NoError)
    \/ STTReturns(EmptyText, NewError("E1"))
    \/ \E plan \in SeqsUpTo(ChunkVals, MaxChunks) : LLMReturns(<<"r">>, NoError, plan)
    \/ LLMReturns(EmptyText, NewError("E1"), << >>)
    \/ \E audio \in Audios : TTSReturns(audio, NoError)
    \/ TTSReturns(<< >>, NewError("E1"))
    \/ \E sinkErr \in {NoError} \cup SinkErrs : StreamChunk(sinkErr)
    \/ \E err \in {NoError, NewError("E1")} : StreamReturns(err)
    \/ HandleInterruption

InterruptSpec == Init /\ [][InterruptNext]_vars

\* --------------------------------------------------------- configuration
\* An update that copies every field but the timeouts.
UpdateConfigValueKeepsTimeouts(old, cfg) ==
    [cfg EXCEPT !.STTTimeout = old.STTTimeout,
                !.LLMTimeout = old.LLMTimeout,
                !.TTSTimeout = old.TTSTimeout]

\* UpdateConfig's assignment o.config = cfg, made with the write lock held.
UpdateConfigValue(old, cfg) == cfg

\* GetConfig's return o.config, made with the read lock held.
GetConfigValue(cfg) == cfg

\* Orchestrator.UpdateConfig(cfg).  The lock makes the body one step.
UpdateConfig(cfg) ==
    /\ config' = UpdateConfigValue(config, cfg)
    /\ cfgArg' = [cfg |-> cfg, by |-> "UpdateConfig"]
    /\ cfgRet' = << >>
    /\ UNCHANGED <<sessVars, callVars>>
    /\ UNCHANGED otherVars

\* Orchestrator.GetConfig().
GetConfig ==
    /\ cfgRet' = << GetConfigValue(config) >>
    /\ UNCHANGED <<config, cfgArg, sessVars, callVars>>
    /\ UNCHANGED otherVars

\* Orchestrator.NewSessionWithDefaults(userID), called by one caller at a
\* time with no UpdateConfig in flight.
NewSessionOp ==
    /\ session' = NewSessionWithDefaults(config, "u1")
    /\ madeFrom' = << config >>
    /\ pre' = session'
    /\ appended' = << >>
    /\ cleared' = "never"
    /\ UNCHANGED <<panicked, cfgVars, pc, mode, transcript, response, sttRes,
                   llmArg, llmRes, ttsRes, ttsPlan, ttsPos, delivered, sinkRes,
                   trace, ret>>
    /\ UNCHANGED otherVars

\* New(stt, llm, tts, config), and a session made by NewConversationSession.
ConfigInit ==
    /\ config \in Configs
    /\ cfgArg = [cfg |-> config, by |-> "New"]
    /\ cfgRet = << >>
    /\ session = NewConversationSession("u1")
    /\ madeFrom = << >>
    /\ appended = << >>
    /\ panicked = FALSE
    /\ cleared = "never"
    /\ NoCall
    /\ NoProcs
    /\ NoDetector
    /\ NoSessions
    /\ NotQuiet
    /\ NoClone
    /\ NoInterruption

ConfigNext ==
    \/ \E cfg \in Configs : UpdateConfig(cfg)
    \/ GetConfig
    \/ NewSessionOp
    \/ AddMessageOp("user", <<"h">>)

ConfigSpec == ConfigInit /\ [][ConfigNext]_vars

\* ------------------------------------------------- concurrent config calls
\* The calls of GetConfig, UpdateConfig and NewSessionWithDefaults made by
\* goroutines that run concurrently, one step per lock operation and per
\* field copied.  Configs handed to UpdateConfig: that of
\* TestConfigManagement, and one that differs from it and from the default.
UpdateArgs ==
    {[DefaultConfig EXCEPT !.SampleRate = 8000,
                           !.MaxContextMessages = 50,
                           !.VoiceStyle = "M1",
                           !.Language = "es",
                           !.STTTimeout = 0,
                           !.LLMTimeout = 0,
                           !.TTSTimeout = 0],
     [DefaultConfig EXCEPT !.MaxContextMessages = 0,
                           !.VoiceStyle = "M1"]}

\* A read lock handed out whatever the writers do.
RLockAlways(m) == TRUE

\* sync.RWMutex.RLock returns when no writer holds the lock and none waits
\* for it; other readers do not matter.
RLockFree(m) == m.writer = << >> /\ m.pending = << >>

\* sync.RWMutex.Lock: writers queue one behind the other, ...
LockFree(m) == m.writer = << >> /\ m.pending = << >>

\* ... and the one at the head gets the lock when the readers have left.
LockGranted(m, p) == m.pending = << p >> /\ m.readers = {}

\* What the concurrent callers leave alone.
lockFrame == <<sessVars, cfgArg, cfgRet, callVars, vadVars, multiVars, intrVars,
              twinVars, quietVars>>

\* GetConfig: o.mu.RLock().
GetConfigRLock(p) ==
    /\ procs[p].pc = "idle"
    /\ RLockFree(mu)
    /\ mu' = [mu EXCEPT !.readers = @ \cup {p}]
    /\ procs' = [procs EXCEPT ![p] = [pc |-> "copy", pos |-> 0, arg |-> mu.readers,
                                      buf |-> ZeroConfig, ret |-> << >>]]
    /\ UNCHANGED <<config, installed, lockFrame>>

\* GetConfig: return o.config copies the next field into the result.
GetConfigCopy(p) ==
    /\ procs[p].pc = "copy"
    /\ procs[p].pos < Len(CfgFields)
    /\ LET f == CfgFields[procs[p].pos + 1]
       IN procs' = [procs EXCEPT ![p].pos = @ + 1,
                                 ![p].buf = [@ EXCEPT ![f] = config[f]]]
    /\ UNCHANGED <<mu, config, installed, lockFrame>>

\* GetConfig: the deferred o.mu.RUnlock() and the return.
GetConfigReturn(p) ==
    /\ procs[p].pc = "copy"
    /\ procs[p].pos = Len(CfgFields)
    /\ mu' = [mu EXCEPT !.readers = @ \ {p}]
    /\ procs' = [procs EXCEPT ![p].pc = "done", ![p].ret = << procs[p].buf >>]
    /\ UNCHANGED <<config, installed, lockFrame>>

\* UpdateConfig(cfg): o.mu.Lock() is called; from now on no new reader gets
\* the lock.
UpdateConfigCall(p, cfg) ==
    /\ procs[p].pc = "idle"
    /\ LockFree(mu)
    /\ mu' = [mu EXCEPT !.pending = << p >>]
    /\ procs' = [procs EXCEPT ![p].pc = "lock", ![p].arg = cfg]
    /\ installed' = installed \cup {cfg}
    /\ UNCHANGED <<config, lockFrame>>

\* UpdateConfig: o.mu.Lock() returns.
UpdateConfigLock(p) ==
    /\ procs[p].pc = "lock"
    /\ LockGranted(mu, p)
    /\ mu' = [mu EXCEPT !.pending = << >>, !.writer = << p >>]
    /\ procs' = [procs EXCEPT ![p].pc = "store"]
    /\ UNCHANGED <<config, installed, lockFrame>>

\* UpdateConfig: o.config = cfg copies the next field.
UpdateConfigStore(p) ==
    /\ procs[p].pc = "store"
    /\ procs[p].pos < Len(CfgFields)
    /\ LET f == CfgFields[procs[p].pos + 1]
       IN config' = [config EXCEPT ![f] = procs[p].arg[f]]
    /\ procs' = [procs EXCEPT ![p].pos = @ + 1]
    /\ UNCHANGED <<mu, installed, lockFrame>>

\* UpdateConfig: the deferred o.mu.Unlock() and the return.
UpdateConfigReturn(p) ==
    /\ procs[p].pc = "store"
    /\ procs[p].pos = Len(CfgFields)
    /\ mu' = [mu EXCEPT !.writer = << >>]
    /\ procs' = [procs EXCEPT ![p].pc = "done"]
    /\ UNCHANGED <<config, installed, lockFrame>>

\* NewSessionWithDefaults: the three assignments from o.config, each one a
\* read of one field of the shared config.  No lock is taken: a read that
\* races with UpdateConfig's store sees the field as it is at that moment.
SessionFields == <<"MaxMessages", "CurrentVoice", "CurrentLanguage">>
ConfigFieldOf(f) ==
    CASE f = "MaxMessages" -> "MaxContextMessages"
      [] f = "CurrentVoice" -> "VoiceStyle"
      [] f = "CurrentLanguage" -> "Language"

NewSessionRead(p) ==
    /\ procs[p].pc \in {"idle", "read"}
    /\ procs[p].pos < Len(SessionFields)
    /\ LET f == SessionFields[procs[p].pos + 1]
           s == IF procs[p].pc = "idle"
                THEN NewConversationSession("u1")
                ELSE procs[p].buf
       IN procs' = [procs EXCEPT ![p].pc = "read",
                                 ![p].pos = @ + 1,
                                 ![p].buf = [s EXCEPT ![f] = config[ConfigFieldOf(f)]]]
    /\ UNCHANGED <<mu, config, installed, lockFrame>>

\* NewSessionWithDefaults: return session.
NewSessionReturn(p) ==
    /\ procs[p].pc = "read"
    /\ procs[p].pos = Len(SessionFields)
    /\ procs' = [procs EXCEPT ![p].pc = "done", ![p].ret = << procs[p].buf >>]
    /\ UNCHANGED <<mu, config, installed, lockFrame>>

\* New(stt, llm, tts, DefaultConfig()), and the goroutines about to call.
LockInit ==
    /\ config = DefaultConfig
    /\ cfgArg = [cfg |-> config, by |-> "New"]
    /\ cfgRet = << >>
    /\ session = NewConversationSession("u1")
    /\ madeFrom = << >>
    /\ appended = << >>
    /\ panicked = FALSE
    /\ cleared = "never"
    /\ NoCall
    /\ mu = MuFree
    /\ procs = [p \in Procs |-> IdleProc]
    /\ installed = {config}
    /\ NoDetector
    /\ NoSessions
    /\ NotQuiet
    /\ NoClone
    /\ NoInterruption

LockNext ==
    \/ \E p \in Getters : GetConfigRLock(p)
    \/ \E p \in Getters : GetConfigCopy(p)
    \/ \E p \in Getters : GetConfigReturn(p)
    \/ \E p \in Updaters, cfg \in UpdateArgs : UpdateConfigCall(p, cfg)
    \/ \E p \in Updaters : UpdateConfigLock(p)
    \/ \E p \in Updaters : UpdateConfigStore(p)
    \/ \E p \in Updaters : UpdateConfigReturn(p)
    \/ \E p \in Makers : NewSessionRead(p)
    \/ \E p \in Makers : NewSessionReturn(p)

LockSpec == LockInit /\ [][LockNext]_vars

\* --------------------------------------------------- detector operations
\* What the detector's operations leave alone.
vadFrame == <<sessVars, cfgVars, callVars, lockVars, multiVars, intrVars,
             twinVars, quietVars>>

\* The setters, called before the stream begins.
SetAdaptiveMode(enabled) ==
    /\ last.op = "none"
    /\ vad' = [vad EXCEPT !.adaptiveMode = enabled]
    /\ UNCHANGED <<now, last, run, subStart, vadFrame>>

SetMinConfirmed(count) ==
    /\ last.op = "none"
    /\ vad' = [vad EXCEPT !.minConfirmed = count]
    /\ UNCHANGED <<now, last, run, subStart, vadFrame>>

SetThreshold(threshold) ==
    /\ last.op = "none"
    /\ vad' = [vad EXCEPT !.threshold = threshold]
    /\ UNCHANGED <<now, last, run, subStart, vadFrame>>

\* RMSVAD.Process(chunk), called dt ticks after the previous operation.
Process(chunk, dt) ==
    /\ now + dt <= MaxTime
    /\ now' = now + dt
    /\ LET r == ProcessEnergy(vad, FrameRMS[chunk], now')
           above == r.event \in {"SpeechStart", "none"}
           first == IF subStart = ZeroTime THEN now' ELSE subStart
       IN /\ vad' = r.vad
          /\ run' = IF ~above THEN 0
                    ELSE IF run > 0 THEN run + 1
                    ELSE IF ~vad.isSpeaking /\ vad.consecutiveFrames = 0 THEN 1
                    ELSE 0
          /\ subStart' = IF above \/ ~vad.isSpeaking \/ r.event = "SpeechEnd"
                         THEN ZeroTime
                         ELSE first
          /\ last' = [op |-> "Process", silent |-> Silent(chunk),
                      event |-> r.event, eff |-> r.eff,
                      wasSpeaking |-> vad.isSpeaking,
                      elapsed |-> IF ~above /\ vad.isSpeaking
                                  THEN now' - first
                                  ELSE 0 - 1,
                      broke |-> IF ~above /\ ~vad.isSpeaking THEN run ELSE 0,
                      before |-> << >>,
                      edge |-> IF r.event \in {"SpeechStart", "SpeechEnd"}
                               THEN r.event
                               ELSE last.edge]
    /\ UNCHANGED vadFrame

\* RMSVAD.Reset(), between two frames.
ResetOp ==
    /\ last.op = "Process"
    /\ vad' = Reset(vad)
    /\ last' = [NoFrame EXCEPT !.op = "Reset", !.before = << vad >>]
    /\ run' = 0
    /\ subStart' = ZeroTime
    /\ UNCHANGED <<now, vadFrame>>

\* NewRMSVAD(threshold, silenceLimit).
VadInit ==
    /\ config = DefaultConfig
    /\ cfgArg = [cfg |-> config, by |-> "New"]
    /\ cfgRet = << >>
    /\ session = NewConversationSession("u1")
    /\ madeFrom = << >>
    /\ appended = << >>
    /\ panicked = FALSE
    /\ cleared = "never"
    /\ NoCall
    /\ NoProcs
    /\ vad \in {NewRMSVAD(t, l) : t \in Thresholds, l \in SilenceLimits}
    /\ now = ZeroTime
    /\ last = NoFrame
    /\ run = 0
    /\ subStart = ZeroTime
    /\ NoSessions
    /\ NotQuiet
    /\ NoClone
    /\ NoInterruption

VadNext ==
    \/ \E enabled \in BOOLEAN : SetAdaptiveMode(enabled)
    \/ \E count \in MinConfirmeds : SetMinConfirmed(count)
    \/ \E threshold \in Thresholds : SetThreshold(threshold)
    \/ \E chunk \in Frames, dt \in 1 .. MaxStep : Process(chunk, dt)
    \/ ResetOp

VadSpec == VadInit /\ [][VadNext]_vars

\* --------------------------------------------------------- cloned detector
\* RMSVAD.Clone: a new detector with the threshold, silenceLimit and
\* minConfirmed of v; every other field has its zero value.
Clone(v) ==
    [threshold |-> v.threshold,
     silenceLimit |-> v.silenceLimit,
     isSpeaking |-> FALSE,
     silenceStart |-> ZeroTime,
     adaptiveMode |-> FALSE,
     noiseFloor |-> 0,
     alpha |-> 0,
     consecutiveFrames |-> 0,
     minConfirmed |-> v.minConfirmed,
     lastRMS |-> 0]

\* A detector made by NewRMSVAD and the setters with the settings of v.
NewLike(v) ==
    [NewRMSVAD(v.threshold, v.silenceLimit) EXCEPT
        !.minConfirmed = v.minConfirmed,
        !.adaptiveMode = v.adaptiveMode]

\* The frames fed to the clone: empty, one sample of 340 (energy 0.0103),
\* one sample of 16384 (energy 0.5).
TwinFrames == {<< >>, <<84, 1>>, <<0, 64>>}
TwinRMS == [chunk \in TwinFrames |-> calculateRMS(chunk)]

\* What the clone's operations leave alone, the original detector aside.
twinFrame == <<sessVars, cfgVars, callVars, lockVars, multiVars, intrVars,
              quietVars>>

\* v.Clone()
CloneOp ==
    /\ twin = << >>
    /\ twin' = << [clone |-> Clone(vad), fresh |-> NewLike(vad),
                   evClone |-> "none", evFresh |-> "none", frames |-> 0] >>
    /\ UNCHANGED <<vadVars, twinFrame>>

\* Process(chunk) on the clone, one tick after the previous operation.
TwinProcess(chunk) ==
    /\ twin # << >>
    /\ now + 1 <= MaxTime
    /\ now' = now + 1
    /\ LET c == ProcessEnergy(twin[1].clone, TwinRMS[chunk], now')
           f == ProcessEnergy(twin[1].fresh, TwinRMS[chunk], now')
       IN twin' = << [clone |-> c.vad, fresh |-> f.vad,
                      evClone |-> c.event, evFresh |-> f.event,
                      frames |-> twin[1].frames + 1] >>
    /\ UNCHANGED <<vad, last, run, subStart, twinFrame>>

\* A detector with its settings made, frames processed by it, a clone taken
\* of it at some point, and frames processed by the clone.
CloneNext ==
    \/ SetAdaptiveMode(FALSE)
    \/ \E count \in {1, DefaultMinConfirmed} : SetMinConfirmed(count)
    \/ Process(<<0, 2>>, 1)
    \/ CloneOp
    \/ \E chunk \in TwinFrames : TwinProcess(chunk)

CloneSpec == VadInit /\ [][CloneNext]_vars

\* ------------------------------------------------------ a source gone quiet
\* What the audio source's steps leave alone.
quietFrame == <<sessVars, cfgVars, callVars, lockVars, multiVars, intrVars,
                twinVars>>

\* Process(chunk) on a frame of a source that may still be heard.
Heard(chunk, dt) ==
    /\ ~quiet
    /\ Process(chunk, dt)

\* The source goes quiet.
GoQuiet ==
    /\ ~quiet
    /\ quiet' = TRUE
    /\ UNCHANGED <<vadVars, quietFrame>>

\* Process(chunk) on a frame of a source gone quiet: the frame is at or
\* below the effective threshold.
QuietFrame(chunk, dt) ==
    /\ quiet
    /\ Process(chunk, dt)
    /\ last'.event \in {"Silence", "SpeechEnd"}

\* A detector that is never reset, fed by a source that goes quiet at some
\* point; frames keep arriving for as long as the clock of the model runs.
LiveNext ==
    \/ SetMinConfirmed(1)
    \/ SetAdaptiveMode(FALSE)
    \/ \E chunk \in Frames, dt \in 1 .. MaxStep : Heard(chunk, dt)
    \/ GoQuiet
    \/ \E chunk \in Frames, dt \in 1 .. MaxStep : QuietFrame(chunk, dt)

LiveSpec ==
    /\ VadInit
    /\ [][LiveNext]_vars
    /\ WF_vars(\E chunk \in Frames, dt \in 1 .. MaxStep : QuietFrame(chunk, dt))

\* ------------------------------------------- calls on several sessions
\* Callers drive one session each through the same orchestrator, their
\* pipeline calls interleaved stage by stage.
Sids == {"a", "b"}
\* Calls made on each session.
MaxTurns == 2

\* What the STT and the LLM collaborator return in a call on session sid
\* (the name of the session is in the text, to tell whose message is whose).
TranscriptsOf(sid) == {<<" ">>, <<"h", sid>>}
ResponsesOf(sid) == {<<"r", sid>>}

\* A session on which no call is in flight.
IdleSession(s) ==
    [session |-> s, pc |-> "idle", transcript |-> EmptyText, llmArg |-> << >>,
     hist |-> << >>, mixed |-> FALSE]

\* A call that appends to the session the orchestrator was last called with.
TargetShared(sid) == "a"

\* The session a call appends to and reads the context of: the one the
\* caller passed to it.
Target(sid) == sid

\* What one ProcessAudio or ProcessAudioStream call does to the session s it
\* is made on, given what STT and LLM answer in it.
CallEffect(s, ans) ==
    IF Failed(ans.sttErr) \/ TranscriptRejected(ans.text)
    THEN s
    ELSE IF Failed(ans.llmErr)
    THEN AddMessage(s, "user", ans.text)
    ELSE AddMessage(AddMessage(s, "user", ans.text), "assistant", ans.response)

\* The session s after the calls answered as in answers, made one after the
\* other with nothing else going on.
RECURSIVE RunAlone(_, _)
RunAlone(s, answers) ==
    IF answers = << >>
    THEN s
    ELSE RunAlone(CallEffect(s, answers[1]), Tail(answers))

\* Some other session has a call in flight.
OthersInFlight(sid) == \E o \in Sids \ {sid} : multi[o].pc # "idle"

\* What calls on sessions leave alone.
multiFrame == <<sessVars, cfgVars, callVars, lockVars, vadVars, intrVars,
               twinVars, quietVars>>

\* ProcessAudio or ProcessAudioStream is called on session sid.
MultiStart(sid) ==
    /\ multi[sid].pc = "idle"
    /\ Len(multi[sid].hist) < MaxTurns
    /\ multi' = [multi EXCEPT ![sid].pc = "stt",
                              ![sid].transcript = EmptyText,
                              ![sid].llmArg = << >>,
                              ![sid].mixed = @ \/ OthersInFlight(sid)]
    /\ UNCHANGED multiFrame

\* o.Transcribe returns in the call on session sid.
MultiSTTReturns(sid, text, err) ==
    /\ multi[sid].pc = "stt"
    /\ LET t == Target(sid)
           ans == [text |-> text, sttErr |-> err, response |-> EmptyText, llmErr |-> NoError]
       IN IF Failed(err) \/ TranscriptRejected(text)
          THEN multi' = [multi EXCEPT ![sid].pc = "idle",
                                      ![sid].hist = Append(@, ans),
                                      ![sid].mixed = @ \/ OthersInFlight(sid)]
          ELSE multi' = [[multi EXCEPT ![t].session = AddMessage(@, "user", text)]
                            EXCEPT ![sid].pc = "llm",
                                   ![sid].transcript = text,
                                   ![sid].llmArg =
                                       << GenerateResponseArg(
                                              AddMessage(multi[t].session, "user", text)) >>,
                                   ![sid].mixed = @ \/ OthersInFlight(sid)]
    /\ UNCHANGED multiFrame

\* o.GenerateResponse returns in the call on session sid.
MultiLLMReturns(sid, text, err) ==
    /\ multi[sid].pc = "llm"
    /\ LET t == Target(sid)
           ans == [text |-> multi[sid].transcript, sttErr |-> NoError,
                   response |-> text, llmErr |-> err]
       IN IF Failed(err)
          THEN multi' = [multi EXCEPT ![sid].pc = "idle",
                                      ![sid].hist = Append(@, ans),
                                      ![sid].mixed = @ \/ OthersInFlight(sid)]
          ELSE multi' = [[multi EXCEPT ![t].session = AddMessage(@, "assistant", text)]
                            EXCEPT ![sid].pc = "tts",
                                   ![sid].hist = Append(@, ans),
                                   ![sid].mixed = @ \/ OthersInFlight(sid)]
    /\ UNCHANGED multiFrame

\* o.Synthesize or o.SynthesizeStream returns in the call on session sid,
\* and the call returns.
MultiTTSReturns(sid, err) ==
    /\ multi[sid].pc = "tts"
    /\ multi' = [multi EXCEPT ![sid].pc = "idle",
                              ![sid].mixed = @ \/ OthersInFlight(sid)]
    /\ UNCHANGED multiFrame

\* New(stt, llm, tts, config) and one NewSessionWithDefaults per caller.
MultiInit ==
    /\ config \in {[DefaultConfig EXCEPT !.MaxContextMessages = w] : w \in 0 .. MaxWindow}
    /\ cfgArg = [cfg |-> config, by |-> "New"]
    /\ cfgRet = << >>
    /\ session = NewConversationSession("u1")
    /\ madeFrom = << >>
    /\ appended = << >>
    /\ panicked = FALSE
    /\ cleared = "never"
    /\ NoCall
    /\ NoProcs
    /\ NoDetector
    /\ multi = [sid \in Sids |-> IdleSession(NewSessionWithDefaults(config, sid))]
    /\ NotQuiet
    /\ NoClone
    /\ NoInterruption

MultiNext ==
    \/ \E sid \in Sids : MultiStart(sid)
    \/ \E sid \in Sids : \E text \in TranscriptsOf(sid) : MultiSTTReturns(sid, text, NoError)
    \/ \E sid \in Sids : MultiSTTReturns(sid, EmptyText, NewError("E1"))
    \/ \E sid \in Sids : \E text \in ResponsesOf(sid) : MultiLLMReturns(sid, text, NoError)
    \/ \E sid \in Sids : MultiLLMReturns(sid, EmptyText, NewError("E1"))
    \/ \E sid \in Sids, err \in {NoError, NewError("E1")} : MultiTTSReturns(sid, err)

MultiSpec == MultiInit /\ [][MultiNext]_vars

\* ================================================================== claims
\* What the finished call returned.
Ret == ret[1]
\* A transcript that is empty or made of white space only.
Blank(t) == \A i \in 1 .. Len(t) : t[i] \in {" ", "\t", "\n", "\r"}
\* The stage outcomes of the call.
STTFailed == sttRes # << >> /\ sttRes[1].err # NoError
STTBlank == sttRes # << >> /\ sttRes[1].err = NoError /\ Blank(sttRes[1].val)
STTGood == sttRes # << >> /\ sttRes[1].err = NoError /\ ~Blank(sttRes[1].val)
LLMFailed == llmRes # << >> /\ llmRes[1].err # NoError
LLMGood == llmRes # << >> /\ llmRes[1].err = NoError
TTSFailed == ttsRes # << >> /\ ttsRes[1].err # NoError
TTSGood == ttsRes # << >> /\ ttsRes[1].err = NoError
\* The two turns of the call.
UserTurn == Message("user", sttRes[1].val)
AssistantTurn == Message("assistant", llmRes[1].val)
\* The first place of x in the call's trace (0 when it is not there).
Pos(x) ==
    IF \E i \in 1 .. Len(trace) : trace[i] = x
    THEN CHOOSE i \in 1 .. Len(trace) :
            trace[i] = x /\ \A j \in 1 .. (i - 1) : trace[j] # x
    ELSE 0

\* ---- C1
\* C1: after each AddMessage call that returns, the context is no longer
\* than MaxMessages and is exactly the last min(n, MaxMessages) of the n
\* messages appended so far, in append order (the oldest evicted first).  The
\* call does not return (it panics on the slice bounds) exactly when
\* MaxMessages is negative.
C1_WindowHoldsLastAppended ==
    Len(appended) > 0 =>
        /\ panicked <=> session.MaxMessages < 0
        /\ ~panicked =>
              /\ Len(session.Context) <= session.MaxMessages
              /\ session.Context =
                    LastN(appended, Min(Len(appended), session.MaxMessages))

\* C1 witness: more messages were appended than the window holds, and the
\* oldest were evicted.
C1_Witness ==
    /\ session.MaxMessages >= 2
    /\ Len(appended) > session.MaxMessages
    /\ Len(session.Context) = session.MaxMessages
    /\ appended[1] # appended[Len(appended)]

\* ---- C2
\* The ordering of a pipeline call up to the LLM, given the last conjunct
\* holds for windows of at least `least` messages: the user turn is appended
\* before the LLM is invoked, the assistant turn only after the LLM returned,
\* the LLM receives the session's whole bounded context of that moment, and
\* its last entry is the user turn just transcribed.
C2_Ordering(least) ==
    llmArg # << >> =>
        /\ 0 < Pos("add_user") /\ Pos("add_user") < Pos("LLM")
        /\ pc = "llm" =>
              /\ session.Context = llmArg[1]
              /\ Pos("add_assistant") = 0
              /\ session.LastAssistant = pre.LastAssistant
        /\ Pos("add_assistant") > 0 =>
              /\ LLMGood
              /\ Pos("LLM") < Pos("add_assistant")
        /\ llmArg[1] = LastN(Append(pre.Context, UserTurn), pre.MaxMessages)
        /\ pre.MaxMessages >= least =>
              /\ llmArg[1] # << >>
              /\ llmArg[1][Len(llmArg[1])] = UserTurn

C3_FailuresNotRolledBack ==
    (pc = "done" /\ (Ret.err # NoError \/ STTFailed \/ STTBlank \/ LLMFailed \/ TTSFailed)) =>
        /\ Ret.err # NoError
        /\ Ret.audio = << >>
        /\ STTFailed \/ STTBlank \/ LLMFailed \/ TTSFailed
        /\ (STTFailed \/ STTBlank) =>
              /\ session = pre
              /\ Ret.transcript = EmptyText
        /\ LLMFailed =>
              /\ session.Context =
                    LastN(Append(pre.Context, UserTurn), pre.MaxMessages)
              /\ session.LastUser = UserTurn.Content
              /\ session.LastAssistant = pre.LastAssistant
              /\ Ret.transcript = UserTurn.Content
        /\ TTSFailed =>
              /\ session.Context =
                    LastN(pre.Context \o <<UserTurn, AssistantTurn>>,
                          pre.MaxMessages)
              /\ session.LastUser = UserTurn.Content
              /\ session.LastAssistant = AssistantTurn.Content
              /\ Ret.transcript = UserTurn.Content

\* C3 witness: a synthesis failure on a session that held messages before
\* the call; both turns of the call are in the session.
C3_Witness ==
    /\ pc = "done"
    /\ TTSFailed
    /\ pre.Context # << >>
    /\ Len(session.Context) = Len(pre.Context) + 2
    /\ Ret.transcript = <<" ", "h", " ">>

\* ---- C4
\* C4: when STT succeeds with an empty or white-space-only transcript the
\* call returns a failure at once, the session (context, LastUser,
\* LastAssistant) is what it was before the call, and the LLM is never
\* invoked.
C4_BlankTranscriptRejected ==
    STTBlank =>
        /\ pc = "done"
        /\ Ret.err # NoError
        /\ session = pre
        /\ llmArg = << >>
        /\ Pos("LLM") = 0
        /\ Pos("add_user") = 0

\* C4 witness: a white-space-only (not empty) transcript, on a session that
\* already holds a message.
C4_Witness ==
    /\ STTBlank
    /\ sttRes[1].val = <<"\t", " ">>
    /\ pre.Context # << >>
    /\ mode = "stream"

\* ---- C5
\* The result of a ProcessAudio call whose three stages succeeded, given
\* what the session's context has become.
C5_Success(context) ==
    (pc = "done" /\ mode = "batch" /\ STTGood /\ LLMGood /\ TTSGood) =>
        /\ Ret = [transcript |-> sttRes[1].val,
                  audio |-> ttsRes[1].val,
                  err |-> NoError]
        /\ session.Context = context
        /\ session.LastUser = UserTurn.Content
        /\ session.LastAssistant = AssistantTurn.Content

\* C5 as the claim states it: the call returns exactly (T, A, no error) and
\* the context has grown by exactly the two messages {user, T} and
\* {assistant, R}.
C5_ContextGrowsByTwo ==
    C5_Success(pre.Context \o <<UserTurn, AssistantTurn>>)

\* C5 (amended): the call returns exactly (T, A, no error) and the context is
\* the last MaxMessages messages of the old context followed by {user, T}
\* and {assistant, R}; it has grown by exactly two messages when the window
\* had room for two.
C5_TurnsAppendedWithinWindow ==
    /\ C5_Success(LastN(pre.Context \o <<UserTurn, AssistantTurn>>,
                        pre.MaxMessages))
    /\ Len(pre.Context) + 2 <= pre.MaxMessages =>
          C5_Success(pre.Context \o <<UserTurn, AssistantTurn>>)

\* C5 witness: a successful ProcessAudio on a session whose window had no
\* room for two more messages.
C5_Witness ==
    /\ pc = "done" /\ mode = "batch" /\ STTGood /\ LLMGood /\ TTSGood
    /\ pre.MaxMessages >= 2
    /\ Len(pre.Context) + 2 > pre.MaxMessages
    /\ Ret.audio = <<1, 2, 3, 4>>
    /\ Ret.transcript = <<" ", "h", " ">>

\* ---- C6
\* The collaborators the call has invoked, in order.
Collab == SelectSeq(trace, LAMBDA x : x \in {"STT", "LLM", "TTS"})

\* C6: a call invokes STT, then the LLM, then TTS, each at most once, and
\* after the first failing stage (the rejection of an empty transcript
\* included) it returns with no later collaborator invoked.
C6_StagesInOrderAtMostOnce ==
    /\ pc # "idle" =>
          Collab \in {<<"STT">>, <<"STT", "LLM">>, <<"STT", "LLM", "TTS">>}
    /\ llmRes # << >> => Len(Collab) >= 2
    /\ ttsRes # << >> => Len(Collab) = 3
    /\ delivered # << >> => Len(Collab) = 3
    /\ (STTFailed \/ STTBlank) =>
          /\ pc = "done"
          /\ Collab = <<"STT">>
          /\ llmArg = << >> /\ llmRes = << >> /\ ttsRes = << >>
    /\ LLMFailed =>
          /\ pc = "done"
          /\ Collab = <<"STT", "LLM">>
          /\ ttsRes = << >> /\ delivered = << >>
    /\ TTSFailed => pc = "done"

\* C6 witness: a streaming call whose LLM stage failed; TTS was not invoked.
C6_Witness ==
    /\ pc = "done"
    /\ mode = "stream"
    /\ LLMFailed
    /\ Collab = <<"STT", "LLM">>

\* ---- C7
\* A sink failure during ProcessAudioStream aborts the call at once, with
\* the chunks handed over so far delivered and the rest not; the call
\* returns the transcript and the error e.
C7_SinkFailure(e) ==
    (sinkRes # << >> /\ sinkRes[1] # NoError) =>
        /\ pc = "done"
        /\ Len(delivered) >= 1
        /\ delivered = SubSeq(ttsPlan, 1, ttsPos)
        /\ Ret.transcript = UserTurn.Content
        /\ Ret.err = e

\* C7 as the claim states it: the error returned is the sink's error
\* untouched.
C7_SinkErrorUntouched == C7_SinkFailure(sinkRes[1])

\* C7 (amended): the error returned wraps the sink's error as its cause,
\* under the text "TTS stream failed"; it is not the sink's error itself.
C7_SinkErrorWrapped ==
    /\ C7_SinkFailure(Errorf("TTS stream failed", sinkRes[1]))
    /\ (sinkRes # << >> /\ sinkRes[1] # NoError) =>
          /\ Unwrap(Ret.err) = sinkRes[1]
          /\ Ret.err # sinkRes[1]

\* C7 witness: the sink failed on the second chunk, the first one delivered.
C7_Witness ==
    /\ sinkRes # << >> /\ sinkRes[1] # NoError
    /\ Len(delivered) = 2
    /\ pc = "done"

\* ---- C8
\* C8: the error a call returns names the stage that failed and wraps the
\* collaborator's own error; the empty-transcript failure is the only one
\* that wraps nothing.
C8_ErrorsNameStageAndCause ==
    pc = "done" =>
        /\ STTFailed => Ret.err = Errorf("transcription failed", sttRes[1].err)
        /\ LLMFailed => Ret.err = Errorf("LLM failed", llmRes[1].err)
        /\ TTSFailed =>
              Ret.err = Errorf(IF mode = "batch" THEN "TTS failed"
                                                 ELSE "TTS stream failed",
                               ttsRes[1].err)
        /\ STTBlank => Ret.err = NewError("empty transcription")
        /\ (Ret.err # NoError /\ Unwrap(Ret.err) = NoError) <=> STTBlank
        /\ Ret.err # NoError => Unwrap(Ret.err) \in {NoError} \cup ProviderErrs \cup SinkErrs

\* C8 witness: a ProcessAudio call whose TTS stage failed with the second
\* provider error.
C8_Witness ==
    /\ pc = "done"
    /\ mode = "batch"
    /\ TTSFailed
    /\ Unwrap(Ret.err) = NewError("E2")

\* ---- C9
\* C9: in a ProcessAudioStream call whose STT and LLM stages succeed and
\* whose TTS produces non-empty audio without failing, the sink is invoked
\* at least once (with every chunk, in order) and the call returns the
\* transcript with no error; the sink is never invoked before the assistant
\* turn is in the session.
C9_SinkInvokedAfterAssistantTurn ==
    /\ \A i \in 1 .. Len(trace) :
          trace[i] = "chunk" =>
              (0 < Pos("add_assistant") /\ Pos("add_assistant") < i)
    /\ delivered # << >> =>
          /\ LLMGood
          /\ session.LastAssistant = AssistantTurn.Content
          /\ session.Context =
                LastN(pre.Context \o <<UserTurn, AssistantTurn>>,
                      pre.MaxMessages)
    /\ (pc = "done" /\ mode = "stream" /\ STTGood /\ LLMGood /\ TTSGood
          /\ \E i \in 1 .. Len(ttsPlan) : ttsPlan[i] # << >>) =>
          /\ Len(delivered) >= 1
          /\ delivered = ttsPlan
          /\ Ret = [transcript |-> sttRes[1].val,
                    audio |-> << >>,
                    err |-> NoError]

\* C9 witness: a streaming call that ended well after two chunks, one of
\* them non-empty.
C9_Witness ==
    /\ pc = "done" /\ mode = "stream" /\ TTSGood
    /\ Len(delivered) = 2
    /\ delivered[1] # delivered[2]

\* ---- C10
\* C10: a GetConfig made after UpdateConfig(c) returned, and before the next
\* UpdateConfig, returns exactly c; a GetConfig made before any update
\* returns the config the orchestrator was constructed with.
C10_GetConfigReturnsLastConfig ==
    cfgRet # << >> => cfgRet[1] = cfgArg.cfg

\* C10 witness: GetConfig returned a config set by UpdateConfig, one with
\* the zero timeouts of the test.
C10_Witness ==
    /\ cfgRet # << >>
    /\ cfgArg.by = "UpdateConfig"
    /\ cfgRet[1].STTTimeout = 0
    /\ cfgRet[1].VoiceStyle = "M1"

\* The session s after AddMessage was called with each of msgs in turn.
RECURSIVE Replay(_, _)
Replay(s, msgs) ==
    IF msgs = << >>
    THEN s
    ELSE Replay(AddMessage(s, msgs[1].Role, msgs[1].Content), Tail(msgs))

\* C11: a session made by NewSessionWithDefaults has the window size, voice
\* and language of the config as it was when the session was made, and its
\* context is made of its own appends only: whatever UpdateConfig has
\* installed since, the session is the one made from the config of then,
\* with the messages appended to it since.
C11_SessionKeepsCreationConfig ==
    (madeFrom # << >> /\ ~panicked) =>
        /\ session.MaxMessages = madeFrom[1].MaxContextMessages
        /\ session.CurrentVoice = madeFrom[1].VoiceStyle
        /\ session.CurrentLanguage = madeFrom[1].Language
        /\ session = Replay(NewSessionWithDefaults(madeFrom[1], session.ID), appended)

\* A session holding a message, made before an UpdateConfig that changed
\* window size, voice and language.
C11_Witness ==
    /\ madeFrom # << >>
    /\ cfgArg.by = "UpdateConfig"
    /\ config.MaxContextMessages # madeFrom[1].MaxContextMessages
    /\ config.VoiceStyle # madeFrom[1].VoiceStyle
    /\ config.Language # madeFrom[1].Language
    /\ session.MaxMessages = madeFrom[1].MaxContextMessages
    /\ session.Context # << >>

\* C12: under every interleaving of concurrent GetConfig and UpdateConfig
\* calls, what a GetConfig call returns is one whole config, the one New was
\* given or the argument of some UpdateConfig call, never a mixture of the
\* fields of two; and a reader is never kept out by other readers: as long
\* as no writer holds or awaits the lock, a GetConfig call can take the read
\* lock, whoever else is reading.
C12_NoTornReads ==
    /\ \A p \in Getters :
            procs[p].ret # << >> => procs[p].ret[1] \in installed
    /\ \A p \in Getters :
            (procs[p].pc = "idle" /\ mu.writer = << >> /\ mu.pending = << >>)
                => ENABLED GetConfigRLock(p)

\* A GetConfig call that took the read lock while the other reader held it,
\* and returned a config an UpdateConfig call had installed, while the
\* second UpdateConfig call waits for the readers to leave.
C12_Witness ==
    /\ procs["get2"].pc = "done"
    /\ procs["get2"].arg = {"get1"}
    /\ procs["get2"].ret[1] \in UpdateArgs
    /\ procs["get1"].pc = "copy"
    /\ mu.pending # << >>

\* C13: a session NewSessionWithDefaults returns has the window size, voice
\* and language of one single config, the one New was given or the argument
\* of some UpdateConfig call, also when UpdateConfig runs concurrently.
C13_SessionFromOneSnapshot ==
    \A p \in Makers :
        procs[p].ret # << >> =>
            \E c \in installed :
                procs[p].ret[1] = NewSessionWithDefaults(c, procs[p].ret[1].ID)

\* C14: a detector whose threshold is not negative never answers a silent
\* frame (all bytes zero, of any length) with SpeechStart, whatever it has
\* processed before.
C14_SilentFramesNeverStart ==
    (last.op = "Process" /\ last.silent /\ vad.threshold >= 0)
        => last.event # "SpeechStart"

\* A silent frame of two bytes or more, processed by a detector that is not
\* speaking, has threshold 0, no adaptive mode and needs one frame at most
\* to confirm speech: its energy equals the threshold.
C14_Witness ==
    /\ last.op = "Process"
    /\ last.silent
    /\ vad.lastRMS = 0
    /\ ~last.wasSpeaking
    /\ vad.threshold = 0
    /\ ~vad.adaptiveMode
    /\ vad.minConfirmed <= 1
    /\ last.event = "Silence"

\* C15: in a run of frames above the (effective) threshold that begins with
\* the detector not speaking and nothing pending confirmation, the frame
\* whose 1-based index in the run is minConfirmed is answered with
\* SpeechStart and every other frame of the run with no event.
C15_StartOnConfirmingFrame ==
    (last.op = "Process" /\ run >= 1 /\ vad.minConfirmed >= 1) =>
        IF run = vad.minConfirmed
        THEN last.event = "SpeechStart" /\ vad.isSpeaking
        ELSE last.event = "none"

\* The seventh frame of a run, with NewRMSVAD's confirmation count.
C15_Witness ==
    /\ last.op = "Process"
    /\ vad.minConfirmed = DefaultMinConfirmed
    /\ run = DefaultMinConfirmed
    /\ last.event = "SpeechStart"

\* C16: a frame not above the threshold that finds the detector speaking
\* is answered with Silence, the detector still speaking, as long as the
\* time since the first frame of its run of such frames is below
\* silenceLimit, and with SpeechEnd, the detector no longer speaking, once
\* that time has reached silenceLimit.
C16_EndAfterSilenceLimit ==
    (last.op = "Process" /\ last.elapsed >= 0) =>
        IF last.elapsed < vad.silenceLimit
        THEN last.event = "Silence" /\ vad.isSpeaking
        ELSE last.event = "SpeechEnd" /\ ~vad.isSpeaking

\* The run's elapsed time has passed a positive silenceLimit without having
\* equalled it: the frames before were answered with Silence.
C16_Witness ==
    /\ last.op = "Process"
    /\ vad.silenceLimit > 0
    /\ last.elapsed > vad.silenceLimit
    /\ last.event = "SpeechEnd"

\* C17 as stated: for every frame and every static threshold the effective
\* threshold is at most 0.3 and at least the static threshold.
C17_EffectiveBetweenStaticAndCap ==
    last.op = "Process" =>
        /\ last.eff <= ThresholdCap
        /\ last.eff >= vad.threshold

\* C17: in adaptive mode the effective threshold of every frame is at most
\* 0.3 and at least the smaller of the static threshold and 0.3 (so at
\* least the static threshold when that is 0.3 or less); with adaptive mode
\* off it is the static threshold itself, capped by nothing.
C17_EffectiveThresholdBounds ==
    last.op = "Process" =>
        IF vad.adaptiveMode
        THEN /\ last.eff <= ThresholdCap
             /\ last.eff >= Min(vad.threshold, ThresholdCap)
        ELSE last.eff = vad.threshold

\* A frame whose effective threshold the noise floor has raised above the
\* static 0.01.
C17_Witness ==
    /\ last.op = "Process"
    /\ vad.adaptiveMode
    /\ vad.threshold = One \div 100
    /\ last.eff > vad.threshold
    /\ last.eff <= ThresholdCap

\* C18: after Reset the detector is as NewRMSVAD made it (with the settings
\* made since): not speaking, no silence timer, nothing pending
\* confirmation, and the initial noise floor and last energy.
C18_ResetIsFresh ==
    last.op = "Reset" =>
        vad = [NewRMSVAD(vad.threshold, vad.silenceLimit) EXCEPT
                  !.adaptiveMode = vad.adaptiveMode,
                  !.minConfirmed = vad.minConfirmed]

\* C19: once ClearContext has been called on a session, in whatever state,
\* the session is what a new session with the same window size (and ID,
\* voice and language) is after the AddMessage calls made since: empty
\* context and empty LastUser and LastAssistant right after the call, and
\* from then on no trace of what was there before.
C19_ClearedSessionIsNew ==
    (cleared # "never" /\ ~panicked) =>
        /\ appended = << >> =>
              /\ session.Context = << >>
              /\ session.LastUser = EmptyText
              /\ session.LastAssistant = EmptyText
        /\ session = Replay([NewConversationSession(session.ID) EXCEPT
                                !.MaxMessages = session.MaxMessages,
                                !.CurrentVoice = session.CurrentVoice,
                                !.CurrentLanguage = session.CurrentLanguage],
                            appended)

\* A session that held something when it was cleared and to which only a
\* system message was appended since, in a window that keeps it.
C19_Witness ==
    /\ cleared = "held"
    /\ Len(appended) = 1
    /\ appended[1].Role = "system"
    /\ session.Context = appended
    /\ session.LastUser = EmptyText
    /\ session.LastAssistant = EmptyText

\* C20: however the pipeline calls on distinct sessions interleave, each
\* session is, whenever no call is in flight on it, what its own calls
\* alone would have made of it, given the same answers of the
\* collaborators; and the messages the LLM is invoked with in a call on a
\* session are the context its own calls alone would have given it by then,
\* and hold no message of another session.
C20_SessionsDoNotInterfere ==
    \A sid \in Sids :
        LET m == multi[sid]
            alone == RunAlone(NewSessionWithDefaults(config, sid), m.hist)
        IN /\ m.pc \in {"idle", "tts"} => m.session = alone
           /\ m.pc = "llm" =>
                 /\ m.session = AddMessage(alone, "user", m.transcript)
                 /\ m.llmArg = << AddMessage(alone, "user", m.transcript).Context >>
           /\ m.llmArg # << >> =>
                 \A i \in 1 .. Len(m.llmArg[1]) :
                     m.llmArg[1][i].Content \in TranscriptsOf(sid) \cup ResponsesOf(sid)

\* Both sessions went through a whole call while a call was in flight on
\* the other, and hold both turns of it.
C20_Witness ==
    \A sid \in Sids :
        /\ multi[sid].pc = "idle"
        /\ multi[sid].mixed
        /\ Len(multi[sid].session.Context) >= 2
        /\ multi[sid].session.LastAssistant = <<"r", sid>>

\* ---- C21
\* The stage a returned error names ("none" for a nil error).
StageNamed(err) ==
    IF err = NoError THEN "none"
    ELSE IF err[1].msg \in {"transcription failed", "empty transcription"} THEN "stt"
    ELSE IF err[1].msg = "LLM failed" THEN "llm"
    ELSE IF err[1].msg \in {"TTS failed", "TTS stream failed"} THEN "tts"
    ELSE "other"

\* The turns a call commits, given the outcomes of its stages.
TurnsCommitted ==
    IF STTFailed \/ STTBlank THEN << >>
    ELSE IF LLMFailed THEN << UserTurn >>
    ELSE << UserTurn, AssistantTurn >>

\* C21: ProcessAudioStream is staged as ProcessAudio is.  The transcript a
\* finished call returns, the stage it failed at and the session it leaves
\* are given by the session the call began with, the outcomes of STT and LLM
\* and whether synthesis succeeded, in the same way for both kinds of call;
\* audio is returned by ProcessAudio only and reaches the sink in
\* ProcessAudioStream only.
C21_StreamStagedAsBatch ==
    pc = "done" =>
        /\ Ret.transcript = IF STTGood THEN sttRes[1].val ELSE EmptyText
        /\ StageNamed(Ret.err) =
              IF STTFailed \/ STTBlank THEN "stt"
              ELSE IF LLMFailed THEN "llm"
              ELSE IF TTSFailed THEN "tts"
              ELSE "none"
        /\ session = Replay(pre, TurnsCommitted)
        /\ mode = "batch" => delivered = << >>
        /\ mode = "stream" => Ret.audio = << >>

\* C21 witness: a ProcessAudioStream call that delivered a chunk and failed
\* in synthesis, on a session with room for both turns.
C21_Witness ==
    /\ pc = "done"
    /\ mode = "stream"
    /\ TTSFailed
    /\ delivered # << >>
    /\ StageNamed(Ret.err) = "tts"
    /\ Len(session.Context) = Len(pre.Context) + 2

\* ---- C22
\* The stages at which a pipeline call is in flight.
InFlight == {"stt", "llm", "tts", "stream"}
\* The last interruption found the call where it still stands.
JustInterrupted ==
    /\ interrupted # << >>
    /\ interrupted[Len(interrupted)].pc = pc
    /\ interrupted[Len(interrupted)].pos = ttsPos

\* C22: HandleInterruption changes no state.  The step of a call of it
\* leaves the session, the config and everything of the pipeline call in
\* flight as they were; right after an interruption the call in flight can
\* go on as before (the next chunk can be delivered, the collaborator
\* awaited can return); and a call that was interrupted in flight and
\* finishes has committed the turns its stage outcomes call for and, when
\* the streamed synthesis succeeded, has delivered every chunk.
C22_InterruptionIsNoOp ==
    /\ [][interrupted' # interrupted =>
             UNCHANGED <<sessVars, cfgVars, callVars>>]_vars
    /\ [](JustInterrupted =>
            /\ (pc = "stream" /\ ttsPos < Len(ttsPlan)) => ENABLED StreamChunk(NoError)
            /\ (pc = "stream" /\ ttsPos = Len(ttsPlan)) => ENABLED StreamReturns(NoError)
            /\ pc = "stt" => ENABLED STTReturns(<<"h">>, NoError)
            /\ pc = "llm" => ENABLED LLMReturns(<<"r">>, NoError, << >>)
            /\ pc = "tts" => ENABLED TTSReturns(<< >>, NoError))
    /\ []((pc = "done" /\ \E i \in 1 .. Len(interrupted) : interrupted[i].pc \in InFlight) =>
            /\ session = Replay(pre, TurnsCommitted)
            /\ (mode = "stream" /\ TTSGood) => delivered = ttsPlan)

\* C22 witness: a streamed call interrupted after its first chunk that
\* delivered its second chunk all the same and committed both turns.
C22_Witness ==
    /\ pc = "done"
    /\ mode = "stream"
    /\ interrupted # << >>
    /\ interrupted[1].pc = "stream"
    /\ interrupted[1].pos = 1
    /\ TTSGood
    /\ Len(delivered) = 2
    /\ Len(session.Context) = Len(pre.Context) + 2

\* ---- C23
\* The frames of odd length, and a frame cut to its last complete sample.
OddFrames == {chunk \in Frames : Len(chunk) % 2 = 1}
Truncated(chunk) == SubSeq(chunk, 1, 2 * (Len(chunk) \div 2))
\* The energy of each odd frame and of its truncation.
OddRMS == [chunk \in OddFrames |->
              [whole |-> calculateRMS(chunk), cut |-> calculateRMS(Truncated(chunk))]]

\* C23: the detector never fails, and an odd-length frame is processed as the
\* same frame cut to its last complete 2-byte sample.  Whatever state the
\* detector is in and whenever the next frame comes, an odd-length frame has
\* the energy of its truncation (0 for a frame of one byte, as for the empty
\* frame) and Process gives the same event and the same detector for both.
\* (Process has no failing return: its error is nil on every path.)
C23_OddFrameAsTruncated ==
    \A chunk \in OddFrames, dt \in 1 .. MaxStep :
        /\ OddRMS[chunk].whole = OddRMS[chunk].cut
        /\ ProcessEnergy(vad, OddRMS[chunk].whole, now + dt) =
           ProcessEnergy(vad, OddRMS[chunk].cut, now + dt)

\* ---- C24
\* The last operation was a Process whose frame was not above the threshold.
SubThresholdFrame == last.op = "Process" /\ last.event \in {"Silence", "SpeechEnd"}
\* The last operation was a Process whose frame was above the threshold.
AboveThresholdFrame == last.op = "Process" /\ last.event \in {"SpeechStart", "none"}

\* C24: after any sequence of Process and Reset calls, consecutiveFrames is
\* 0 right after a frame that was not above the threshold, and silenceStart
\* is unset whenever the detector is not speaking; silenceStart goes from
\* unset to set only in a Process call that finds the detector speaking and
\* whose frame is not above the threshold (it is then the time of that
\* frame), and it is unset again right after any frame above the threshold.
C24_CounterAndTimerDiscipline ==
    /\ [](SubThresholdFrame => vad.consecutiveFrames = 0)
    /\ [](~vad.isSpeaking => vad.silenceStart = ZeroTime)
    /\ [](AboveThresholdFrame => vad.silenceStart = ZeroTime)
    /\ [][(vad.silenceStart = ZeroTime /\ vad'.silenceStart # ZeroTime) =>
             /\ last'.op = "Process"
             /\ last'.wasSpeaking
             /\ last'.event = "Silence"
             /\ vad'.silenceStart = now']_vars

\* C24 witness: a speaking detector in its second quiet frame: the counter is
\* 0 and the silence timer still holds the time of the first quiet frame.
C24_Witness ==
    /\ SubThresholdFrame
    /\ last.wasSpeaking
    /\ vad.isSpeaking
    /\ vad.consecutiveFrames = 0
    /\ vad.silenceStart # ZeroTime
    /\ vad.silenceStart < now
    /\ vad.silenceStart = subStart

\* ---- C25
\* What holds of the noise floor across a Process call.  The floor never
\* rises on a frame processed while the detector is speaking; it rises only
\* when the call finds the detector in adaptive mode and not speaking and the
\* frame's energy is at least the floor and below twice the static
\* threshold, and then to a value between the old floor and the energy; it
\* falls only by becoming the frame's energy; and a frame whose energy is
\* below the floor makes its energy the floor, speaking or not: in every
\* mode (inEveryMode) or in adaptive mode only.
C25_FloorDiscipline(inEveryMode) ==
    now' # now =>
          LET rms == vad'.lastRMS
              old == vad.noiseFloor
              new == vad'.noiseFloor
          IN /\ vad.isSpeaking => new <= old
             /\ new > old =>
                   /\ vad.adaptiveMode
                   /\ ~vad.isSpeaking
                   /\ rms # NaN
                   /\ rms >= old
                   /\ rms < 2 * vad.threshold
                   /\ new < rms
             /\ new < old => new = rms
             /\ ((inEveryMode \/ vad.adaptiveMode) /\ rms # NaN /\ rms < old) =>
                   new = rms

\* C25 as stated: the noise floor never rises on a frame processed while
\* speaking, is raised only on frames processed while not speaking whose
\* energy is at least the floor and below twice the static threshold, and is
\* lowered to the frame's energy on any frame whose energy is below it.
C25_FloorLoweredOnAnyQuieterFrame == [][C25_FloorDiscipline(TRUE)]_vars

\* C25 amended: the same, the floor being lowered to the energy of a frame
\* below it only while adaptive mode is on; with adaptive mode off no frame
\* changes the floor.
C25_FloorRisesOnlyWhenNotSpeaking ==
    [][/\ C25_FloorDiscipline(FALSE)
       /\ (now' # now /\ ~vad.adaptiveMode) =>
              vad'.noiseFloor = vad.noiseFloor]_vars

\* C25 witness: a floor that was raised before the utterance began, and a
\* frame processed while speaking whose energy, at least the floor and below
\* twice the static threshold, would have raised it further.
C25_Witness ==
    /\ last.op = "Process"
    /\ last.wasSpeaking
    /\ vad.adaptiveMode
    /\ vad.noiseFloor > InitialNoiseFloor
    /\ vad.lastRMS >= vad.noiseFloor
    /\ vad.lastRMS < 2 * vad.threshold

\* ---- C26
\* C26: spike filtering.  SpeechStart is returned only for a frame that
\* finds the detector not speaking and completes a run of at least
\* minConfirmed frames above the effective threshold; while the detector is
\* not speaking its counter is the length of the run in progress; a frame of
\* a run still shorter than minConfirmed returns no event and leaves the
\* detector not speaking; and the frame at or below the threshold that
\* breaks such a run returns Silence and leaves the counter at 0, so that
\* the next run starts counting from one.
C26_SpikesFiltered ==
    /\ last.event = "SpeechStart" =>
          /\ ~last.wasSpeaking
          /\ run >= 1
          /\ run >= vad.minConfirmed
    /\ ~vad.isSpeaking => vad.consecutiveFrames = run
    /\ (AboveThresholdFrame /\ ~last.wasSpeaking /\ run < vad.minConfirmed) =>
          /\ last.event = "none"
          /\ ~vad.isSpeaking
    /\ (last.op = "Process" /\ last.broke >= 1 /\ last.broke < vad.minConfirmed) =>
          /\ last.event = "Silence"
          /\ ~vad.isSpeaking
          /\ vad.consecutiveFrames = 0
    /\ (AboveThresholdFrame /\ ~last.wasSpeaking /\ run = 1) =>
          (last.event = "SpeechStart" <=> vad.minConfirmed <= 1)

\* C26 witness: with the default confirmation count, a run of six frames
\* above the threshold was broken by a quiet frame: no speech, counter 0.
C26_Witness ==
    /\ vad.minConfirmed = DefaultMinConfirmed
    /\ last.op = "Process"
    /\ last.broke = DefaultMinConfirmed - 1
    /\ last.event = "Silence"
    /\ ~vad.isSpeaking
    /\ vad.consecutiveFrames = 0

\* ---- C27
\* Every numeric field of the config cfg is positive.
NumericFieldsPositive(cfg) ==
    /\ cfg.SampleRate > 0
    /\ cfg.Channels > 0
    /\ cfg.BytesPerSamp > 0
    /\ cfg.MaxContextMessages > 0
    /\ cfg.STTTimeout > 0
    /\ cfg.LLMTimeout > 0
    /\ cfg.TTSTimeout > 0

\* C27: after construction and any sequence of UpdateConfig calls, every
\* numeric field of the config held and of the config GetConfig returns
\* (sample rate, channels, bytes per sample, max context messages, the three
\* timeouts) is positive, and a session made by NewSessionWithDefaults has
\* MaxMessages > 0.
C27_ConfigFieldsPositive ==
    /\ NumericFieldsPositive(config)
    /\ cfgRet # << >> => NumericFieldsPositive(cfgRet[1])
    /\ (madeFrom # << >> /\ ~panicked) => session.MaxMessages > 0

\* ---- C28
\* C28: the detector Clone returns shares no state with the original (a
\* frame processed by one leaves the other as it was) and emits, for every
\* sequence of frames, the events a detector made anew with the original's
\* threshold, silenceLimit, minConfirmed and adaptive-mode setting emits.
C28_CloneActsAsNewDetector ==
    /\ [][(twin # << >> /\ vad' # vad) => twin' = twin]_vars
    /\ [][(twin # << >> /\ twin' # twin) => vad' = vad]_vars
    /\ [](twin # << >> => twin[1].evClone = twin[1].evFresh)

\* ---- C29
\* C29: over the Process calls made since the detector was made or last
\* reset, SpeechStart and SpeechEnd alternate, SpeechStart first: SpeechStart
\* is returned only when neither or SpeechEnd was the last of the two
\* returned, SpeechEnd only when SpeechStart was; and the detector is
\* speaking exactly when the last of the two returned was SpeechStart.
C29_StartAndEndAlternate ==
    /\ [](vad.isSpeaking <=> last.edge = "SpeechStart")
    /\ [][now' # now =>
             /\ last'.event = "SpeechStart" => last.edge \in {"none", "SpeechEnd"}
             /\ last'.event = "SpeechEnd" => last.edge = "SpeechStart"]_vars

\* C29 witness: an utterance that began and ended: SpeechEnd is returned,
\* after a quiet stretch of the silence limit, by a detector that
\* SpeechStart had left speaking, and leaves it not speaking.
C29_Witness ==
    /\ last.op = "Process"
    /\ last.event = "SpeechEnd"
    /\ last.edge = "SpeechEnd"
    /\ last.wasSpeaking
    /\ last.elapsed = 2
    /\ ~vad.isSpeaking

\* ---- C30
\* C30: every utterance ends.  Once the source has gone quiet (every frame
\* from then on is at or below the effective threshold) while frames keep
\* arriving and the clock keeps advancing, a speaking detector returns
\* SpeechEnd and is no longer speaking (provided the clock of the model
\* leaves the time for it: a frame and the silence limit); and a frame
\* processed while speaking that is above the threshold, or comes less than
\* silenceLimit after the first frame of its quiet run, leaves the detector
\* speaking and is not answered with SpeechEnd: with frames above the
\* threshold recurring at gaps shorter than silenceLimit the utterance never
\* ends.
C30_UtteranceEnds ==
    /\ (quiet /\ vad.isSpeaking /\ now + MaxStep + vad.silenceLimit <= MaxTime)
          ~> (last.event = "SpeechEnd" /\ ~vad.isSpeaking)
    /\ [][(now' # now /\ vad.isSpeaking /\ last'.elapsed < vad.silenceLimit) =>
             (vad'.isSpeaking /\ last'.event # "SpeechEnd")]_vars

\* C30 witness: a source gone quiet, and the SpeechEnd that came once the
\* quiet had lasted the silence limit.
C30_Witness ==
    /\ quiet
    /\ last.event = "SpeechEnd"
    /\ last.wasSpeaking
    /\ vad.silenceLimit = 2
    /\ last.elapsed >= 2
    /\ ~vad.isSpeaking

====
